---------------------------- MODULE Spec2Model ----------------------------
(***************************************************************************)
(* Contact constraint solver of reactphysics3d                             *)
(* (src/systems/ConstraintSolverSystem.cpp, class ContactSolverSystem).    *)
(*                                                                         *)
(* The solver's `decimal` values are modelled as exact rationals <<n, d>>  *)
(* in lowest terms with d > 0, vectors as triples of rationals and 3x3     *)
(* matrices as triples of rows.  Floating-point rounding is not modelled.  *)
(***************************************************************************)
EXTENDS Integers, Sequences, FiniteSets, TLC

(***************************************************************************)
(* decimal arithmetic                                                      *)
(*                                                                         *)
(* A decimal is a whole number of units of 1/Scale.  Sums and differences  *)
(* are exact; a product, a quotient or a square root is rounded to the     *)
(* nearest unit, as the floating-point unit rounds it to the nearest value *)
(* it can hold.                                                            *)
(***************************************************************************)
Abs(a) == IF a < 0 THEN -a ELSE a

\* Units in 1.0: the resolution of a decimal.
Scale == 1000

\* n / d rounded to the nearest whole number, halves away from zero (d # 0)
RoundDiv(n, d) ==
    LET q == (2 * Abs(n) + Abs(d)) \div (2 * Abs(d))
    IN  IF (n < 0) = (d < 0) THEN q ELSE -q

\* the decimal n/d
Dec(n, d) == RoundDiv(n * Scale, d)

Zero == 0
One == Scale
Add(a, b) == a + b
Sub(a, b) == a - b
Neg(a) == -a
Mul(a, b) == RoundDiv(a * b, Scale)
\* a / b for b # 0
Div(a, b) == RoundDiv(a * Scale, b)
Lt(a, b) == a < b
Gt(a, b) == Lt(b, a)
Le(a, b) == ~Lt(b, a)
\* std::max(a, b) and std::min(a, b)
Max(a, b) == IF Lt(a, b) THEN b ELSE a
Min(a, b) == IF Lt(b, a) THEN b ELSE a
DAbs(a) == Abs(a)

\* largest k with k * k <= n, by bisection of lo..hi (lo * lo <= n < hi * hi)
RECURSIVE ISqrtIn(_, _, _)
ISqrtIn(n, lo, hi) ==
    IF hi - lo <= 1 THEN lo
    ELSE LET mid == (lo + hi) \div 2
         IN  IF mid * mid <= n THEN ISqrtIn(n, mid, hi) ELSE ISqrtIn(n, lo, mid)
ISqrt(n) == ISqrtIn(n, 0, IF n < 46340 THEN n + 1 ELSE 46341)

\* std::sqrt of a >= 0, rounded to the nearest unit
Sqrt(a) ==
    LET n == a * Scale
        r == ISqrt(n)
    IN  IF n - r * r > r THEN r + 1 ELSE r

(***************************************************************************)
(* Vector3 and Matrix3x3                                                   *)
(***************************************************************************)
VZero == <<Zero, Zero, Zero>>
VAdd(a, b) == <<Add(a[1], b[1]), Add(a[2], b[2]), Add(a[3], b[3])>>
VSub(a, b) == <<Sub(a[1], b[1]), Sub(a[2], b[2]), Sub(a[3], b[3])>>
VNeg(a) == <<Neg(a[1]), Neg(a[2]), Neg(a[3])>>
VScale(s, a) == <<Mul(s, a[1]), Mul(s, a[2]), Mul(s, a[3])>>
\* componentwise product, as the per-axis factor loops do
VMulComp(a, f) == <<Mul(a[1], f[1]), Mul(a[2], f[2]), Mul(a[3], f[3])>>
VDot(a, b) == Add(Add(Mul(a[1], b[1]), Mul(a[2], b[2])), Mul(a[3], b[3]))
VCross(a, b) ==
    <<Sub(Mul(a[2], b[3]), Mul(a[3], b[2])),
      Sub(Mul(a[3], b[1]), Mul(a[1], b[3])),
      Sub(Mul(a[1], b[2]), Mul(a[2], b[1]))>>
VLengthSquare(a) == VDot(a, a)
\* Vector3::length; sqrt(x * x) is |x| in binary floating point, so the length
\* of a vector along one axis is exact
VLength(a) ==
    IF a[2] = Zero /\ a[3] = Zero THEN DAbs(a[1])
    ELSE IF a[1] = Zero /\ a[3] = Zero THEN DAbs(a[2])
    ELSE IF a[1] = Zero /\ a[2] = Zero THEN DAbs(a[3])
    ELSE Sqrt(VLengthSquare(a))
\* Vector3::getUnit / normalize: the zero vector is returned unchanged
VUnit(a) ==
    LET l == VLength(a)
    IN  IF l = Zero THEN a ELSE <<Div(a[1], l), Div(a[2], l), Div(a[3], l)>>

MZero == <<VZero, VZero, VZero>>
MAdd(A, B) == <<VAdd(A[1], B[1]), VAdd(A[2], B[2]), VAdd(A[3], B[3])>>
MatVec(A, v) == <<VDot(A[1], v), VDot(A[2], v), VDot(A[3], v)>>
MDiag(a) == <<<<a, Zero, Zero>>, <<Zero, a, Zero>>, <<Zero, Zero, a>>>>
Det(A) ==
    Add(Sub(Mul(A[1][1], Sub(Mul(A[2][2], A[3][3]), Mul(A[3][2], A[2][3]))),
            Mul(A[1][2], Sub(Mul(A[2][1], A[3][3]), Mul(A[3][1], A[2][3])))),
        Mul(A[1][3], Sub(Mul(A[2][1], A[3][2]), Mul(A[3][1], A[2][2]))))
\* Matrix3x3::getInverse of a matrix with non-zero determinant
MInverse(A) ==
    LET d == Det(A)
        c(i, j, k, l) == Sub(Mul(A[i][j], A[k][l]), Mul(A[i][l], A[k][j]))
    IN  <<<<Div(c(2, 2, 3, 3), d), Div(Neg(c(1, 2, 3, 3)), d), Div(c(1, 2, 2, 3), d)>>,
          <<Div(Neg(c(2, 1, 3, 3)), d), Div(c(1, 1, 3, 3), d), Div(Neg(c(1, 1, 2, 3)), d)>>,
          <<Div(c(2, 1, 3, 2), d), Div(Neg(c(1, 1, 3, 2)), d), Div(c(1, 1, 2, 2), d)>>>>

(***************************************************************************)
(* Constants of the solver                                                 *)
(***************************************************************************)
BETA == Dec(2, 10)
BETA_SPLIT_IMPULSE == Dec(2, 10)
SLOP == Dec(1, 100)

\* MACHINE_EPSILON (the epsilon of a 32-bit float) is finer than a unit:
\* a > MACHINE_EPSILON for a decimal a >= 0
GtEpsilon(a) == a > Zero
\* approxEqual(a, b) with the default epsilon: |a - b| < MACHINE_EPSILON
approxEqual(a, b) == DAbs(Sub(a, b)) = Zero

(***************************************************************************)
(* External collaborators: transforms, materials                           *)
(***************************************************************************)
\* Transform * Vector3
TransformPoint(t, p) == VAdd(MatVec(t.orientation, p), t.position)

\* clamp(vector, maxLength): the vector, shortened to maxLength if longer
clamp(v, maxLength) ==
    IF Gt(VLength(v), maxLength)
    THEN VScale(maxLength, VUnit(v))
    ELSE v

\* Vector3::getMinAxis and Vector3::getOneUnitOrthogonalVector
getMinAxis(v) ==
    IF Lt(v[1], v[2]) THEN (IF Lt(v[1], v[3]) THEN 0 ELSE 2)
    ELSE (IF Lt(v[2], v[3]) THEN 1 ELSE 2)
getOneUnitOrthogonalVector(v) ==
    LET minElement == getMinAxis(<<DAbs(v[1]), DAbs(v[2]), DAbs(v[3])>>)
        x == v[1]
        y == v[2]
        z == v[3]
        over(u, l) == <<Div(u[1], l), Div(u[2], l), Div(u[3], l)>>
    IN  IF minElement = 0
        THEN over(<<Zero, Neg(z), y>>, VLength(<<Zero, y, z>>))
        ELSE IF minElement = 1
        THEN over(<<Neg(z), Zero, x>>, VLength(<<x, Zero, z>>))
        ELSE over(<<Neg(y), x, Zero>>, VLength(<<x, y, Zero>>))

\* Compute the collision restitution factor from the restitution factor of each collider
computeMixedRestitutionFactor(s, collider1, collider2) ==
    LET restitution1 == s.material[collider1].bounciness
        restitution2 == s.material[collider2].bounciness
    IN  IF Gt(restitution1, restitution2) THEN restitution1 ELSE restitution2

\* faulty variant of computeMixedFrictionCoefficient: the arithmetic mean
computeMixedFrictionCoefficientMean(s, collider1, collider2) ==
    Mul(Dec(1, 2), Add(s.material[collider1].frictionCoefficient,
                       s.material[collider2].frictionCoefficient))

\* Compute the mixed friction coefficient from the friction coefficient of each collider
computeMixedFrictionCoefficient(s, collider1, collider2) ==
    Sqrt(Mul(s.material[collider1].frictionCoefficient,
             s.material[collider2].frictionCoefficient))

\* Compute the mixed rolling resistance factor between two colliders
computeMixedRollingResistance(s, collider1, collider2) ==
    Mul(Dec(1, 2), Add(s.material[collider1].rollingResistance,
                       s.material[collider2].rollingResistance))

(***************************************************************************)
(* ContactSolverSystem::computeFrictionVectors                             *)
(* Returns the pair <<frictionVector1, frictionVector2>> for a manifold    *)
(* normal and the velocity difference at the friction point.               *)
(***************************************************************************)
\* lines 856-866: the unit vector of the tangential velocity, or, when that
\* velocity is (almost) zero, any unit vector orthogonal to the normal
frictionVector1Of(tangentVelocity, lengthTangentVelocity, normal) ==
    IF GtEpsilon(lengthTangentVelocity)
    THEN <<Div(tangentVelocity[1], lengthTangentVelocity),
           Div(tangentVelocity[2], lengthTangentVelocity),
           Div(tangentVelocity[3], lengthTangentVelocity)>>
    ELSE getOneUnitOrthogonalVector(normal)

\* the second friction vector taken as frictionVector1 x normal
withFrictionVector2Reversed(frictionVector1, normal) ==
    <<frictionVector1, VUnit(VCross(frictionVector1, normal))>>

\* lines 871-875: the second friction vector completes the basis
withFrictionVector2(frictionVector1, normal) ==
    <<frictionVector1, VUnit(VCross(normal, frictionVector1))>>

\* lines 851-855: the velocity difference in the tangential plane
tangentVelocityOf(deltaVelocity, normalVelocity) ==
    <<Sub(deltaVelocity[1], normalVelocity[1]),
      Sub(deltaVelocity[2], normalVelocity[2]),
      Sub(deltaVelocity[3], normalVelocity[3])>>

frictionVectorsOfTangent(tangentVelocity, normal) ==
    withFrictionVector2(
        frictionVector1Of(tangentVelocity, VLength(tangentVelocity), normal), normal)

computeFrictionVectors(deltaVelocity, normal) ==
    frictionVectorsOfTangent(
        tangentVelocityOf(deltaVelocity, VScale(VDot(deltaVelocity, normal), normal)),
        normal)

(***************************************************************************)
(* ContactSolverSystem::initializeForIsland                                *)
(* External lists are indexed from 0 as in the source: element k of a list *)
(* L is L[k + 1].  Internal records are appended to mContactConstraints    *)
(* and mContactPoints, so record k (from 0) is element k + 1.              *)
(***************************************************************************)
\* v2c + a1*b1 - a2*b2 - v1c - a3*b3 - a4*b4 : one component of deltaV as
\* initializeForIsland writes it (lines 204-209 and 294-305)
deltaVInitComponent(v2c, a1, b1, a2, b2, v1c, a3, b3, a4, b4) ==
    Sub(Sub(Sub(Sub(Add(v2c, Mul(a1, b1)), Mul(a2, b2)), v1c), Mul(a3, b3)), Mul(a4, b4))

deltaVInit(v1, w1, v2, w2, r1, r2) ==
    <<deltaVInitComponent(v2[1], w2[2], r2[3], w2[3], r2[2], v1[1], w1[2], r1[3], w1[3], r1[2]),
      deltaVInitComponent(v2[2], w2[3], r2[1], w2[1], r2[3], v1[2], w1[3], r1[1], w1[1], r1[3]),
      deltaVInitComponent(v2[3], w2[1], r2[2], w2[2], r2[1], v1[3], w1[1], r1[2], w1[2], r1[1])>>

\* the restitution velocity bias of a point (lines 235-247)
restitutionBiasOf(s, deltaV, normal, collider1, collider2) ==
    LET deltaVDotN == Add(Add(Mul(deltaV[1], normal[1]), Mul(deltaV[2], normal[2])),
                          Mul(deltaV[3], normal[3]))
        restitutionFactor == computeMixedRestitutionFactor(s, collider1, collider2)
    IN  IF Lt(deltaVDotN, Neg(s.mRestitutionVelocityThreshold))
        THEN Mul(restitutionFactor, deltaVDotN)
        ELSE Zero

\* the world-space contact point on body 1 and on body 2 of external point c
worldPoint1(s, m, c) ==
    TransformPoint(s.localToWorld[s.mAllContactManifolds[m + 1].colliderEntity1],
                   s.mAllContactPoints[c + 1].localPointOnShape1)
worldPoint2(s, m, c) ==
    TransformPoint(s.localToWorld[s.mAllContactManifolds[m + 1].colliderEntity2],
                   s.mAllContactPoints[c + 1].localPointOnShape2)

\* the ContactPointSolver record built for external point c of external manifold m
\* (lines 172-247)
newContactPointSolver(s, m, c) ==
    LET externalManifold == s.mAllContactManifolds[m + 1]
        externalContact == s.mAllContactPoints[c + 1]
        rigidBodyIndex1 == s.entityIndex[externalManifold.bodyEntity1]
        rigidBodyIndex2 == s.entityIndex[externalManifold.bodyEntity2]
        x1 == s.mCentersOfMassWorld[rigidBodyIndex1]
        x2 == s.mCentersOfMassWorld[rigidBodyIndex2]
        v1 == s.mLinearVelocities[rigidBodyIndex1]
        w1 == s.mAngularVelocities[rigidBodyIndex1]
        v2 == s.mLinearVelocities[rigidBodyIndex2]
        w2 == s.mAngularVelocities[rigidBodyIndex2]
        inverseInertiaTensorBody1 == s.worldInertiaTensorInverse[externalManifold.bodyEntity1]
        inverseInertiaTensorBody2 == s.worldInertiaTensorInverse[externalManifold.bodyEntity2]
        massInverseBody1 == s.mInverseMasses[rigidBodyIndex1]
        massInverseBody2 == s.mInverseMasses[rigidBodyIndex2]
        p1 == worldPoint1(s, m, c)
        p2 == worldPoint2(s, m, c)
        normal == externalContact.normal
        r1 == VSub(p1, x1)
        r2 == VSub(p2, x2)
        deltaV == deltaVInit(v1, w1, v2, w2, r1, r2)
        r1CrossN == VCross(r1, normal)
        r2CrossN == VCross(r2, normal)
        i1TimesR1CrossN == MatVec(inverseInertiaTensorBody1, r1CrossN)
        i2TimesR2CrossN == MatVec(inverseInertiaTensorBody2, r2CrossN)
        massPenetration ==
            Add(Add(Add(massInverseBody1, massInverseBody2),
                    VDot(VCross(i1TimesR1CrossN, r1), normal)),
                VDot(VCross(i2TimesR2CrossN, r2), normal))
    IN  [externalContact |-> c,
         normal |-> normal,
         r1 |-> r1,
         r2 |-> r2,
         penetrationDepth |-> externalContact.penetrationDepth,
         isRestingContact |-> externalContact.isRestingContact,
         penetrationImpulse |-> externalContact.penetrationImpulse,
         penetrationSplitImpulse |-> Zero,
         i1TimesR1CrossN |-> i1TimesR1CrossN,
         i2TimesR2CrossN |-> i2TimesR2CrossN,
         inversePenetrationMass |->
             IF Gt(massPenetration, Zero) THEN Div(One, massPenetration) ELSE Zero,
         restitutionBias |->
             restitutionBiasOf(s, deltaV, normal, externalManifold.colliderEntity1,
                               externalManifold.colliderEntity2)]

\* sums over the external points c .. last of manifold m (lines 195-200, 249-251)
RECURSIVE sumWorldPoint1(_, _, _, _)
sumWorldPoint1(s, m, c, last) ==
    IF c > last THEN VZero
    ELSE VAdd(worldPoint1(s, m, c), sumWorldPoint1(s, m, c + 1, last))
RECURSIVE sumWorldPoint2(_, _, _, _)
sumWorldPoint2(s, m, c, last) ==
    IF c > last THEN VZero
    ELSE VAdd(worldPoint2(s, m, c), sumWorldPoint2(s, m, c + 1, last))
RECURSIVE sumNormals(_, _, _)
sumNormals(s, c, last) ==
    IF c > last THEN VZero
    ELSE VAdd(s.mAllContactPoints[c + 1].normal, sumNormals(s, c + 1, last))

\* the inverse K matrix of the rolling resistance constraint (lines 272-288)
inverseRollingResistanceOf(rollingResistanceFactor, isBody1DynamicType, isBody2DynamicType, inverseInertiaTensorBody1, inverseInertiaTensorBody2) ==
    IF Gt(rollingResistanceFactor, Zero) /\ (isBody1DynamicType \/ isBody2DynamicType)
    THEN LET K == MAdd(inverseInertiaTensorBody1, inverseInertiaTensorBody2)
             det == Det(K)
         IN  IF approxEqual(det, Zero) THEN MZero ELSE MInverse(K)
    ELSE MZero

\* the ContactManifoldSolver record built for external manifold m (lines 124-160,
\* 256-332); the record is value-initialised (line 147), so rollingResistanceImpulse,
\* which no line of initializeForIsland assigns, is the zero vector
contactManifoldSolverOf(s, m, frictionPointBody1, frictionPointBody2, normal, frictionVector1, frictionVector2) ==
    LET externalManifold == s.mAllContactManifolds[m + 1]
        rigidBodyIndex1 == s.entityIndex[externalManifold.bodyEntity1]
        rigidBodyIndex2 == s.entityIndex[externalManifold.bodyEntity2]
        collider1 == externalManifold.colliderEntity1
        collider2 == externalManifold.colliderEntity2
        inverseInertiaTensorBody1 == s.worldInertiaTensorInverse[externalManifold.bodyEntity1]
        inverseInertiaTensorBody2 == s.worldInertiaTensorInverse[externalManifold.bodyEntity2]
        massInverseBody1 == s.mInverseMasses[rigidBodyIndex1]
        massInverseBody2 == s.mInverseMasses[rigidBodyIndex2]
        r1Friction == VSub(frictionPointBody1, s.mCentersOfMassWorld[rigidBodyIndex1])
        r2Friction == VSub(frictionPointBody2, s.mCentersOfMassWorld[rigidBodyIndex2])
        r1CrossT1 == VCross(r1Friction, frictionVector1)
        r1CrossT2 == VCross(r1Friction, frictionVector2)
        r2CrossT1 == VCross(r2Friction, frictionVector1)
        r2CrossT2 == VCross(r2Friction, frictionVector2)
        friction1Mass ==
            Add(Add(Add(massInverseBody1, massInverseBody2),
                    VDot(VCross(MatVec(inverseInertiaTensorBody1, r1CrossT1), r1Friction),
                         frictionVector1)),
                VDot(VCross(MatVec(inverseInertiaTensorBody2, r2CrossT1), r2Friction),
                     frictionVector1))
        friction2Mass ==
            Add(Add(Add(massInverseBody1, massInverseBody2),
                    VDot(VCross(MatVec(inverseInertiaTensorBody1, r1CrossT2), r1Friction),
                         frictionVector2)),
                VDot(VCross(MatVec(inverseInertiaTensorBody2, r2CrossT2), r2Friction),
                     frictionVector2))
        frictionTwistMass ==
            Add(VDot(normal, MatVec(inverseInertiaTensorBody1, normal)),
                VDot(normal, MatVec(inverseInertiaTensorBody2, normal)))
    IN  [rigidBodyComponentIndexBody1 |-> rigidBodyIndex1,
         rigidBodyComponentIndexBody2 |-> rigidBodyIndex2,
         inverseInertiaTensorBody1 |-> inverseInertiaTensorBody1,
         inverseInertiaTensorBody2 |-> inverseInertiaTensorBody2,
         massInverseBody1 |-> massInverseBody1,
         massInverseBody2 |-> massInverseBody2,
         nbContacts |-> externalManifold.nbContactPoints,
         frictionCoefficient |-> computeMixedFrictionCoefficient(s, collider1, collider2),
         rollingResistanceFactor |-> computeMixedRollingResistance(s, collider1, collider2),
         externalContactManifold |-> m,
         normal |-> normal,
         frictionPointBody1 |-> frictionPointBody1,
         frictionPointBody2 |-> frictionPointBody2,
         r1Friction |-> r1Friction,
         r2Friction |-> r2Friction,
         oldFrictionVector1 |-> externalManifold.frictionVector1,
         oldFrictionVector2 |-> externalManifold.frictionVector2,
         friction1Impulse |-> externalManifold.frictionImpulse1,
         friction2Impulse |-> externalManifold.frictionImpulse2,
         frictionTwistImpulse |-> externalManifold.frictionTwistImpulse,
         rollingResistanceImpulse |-> VZero,
         inverseRollingResistance |->
             inverseRollingResistanceOf(
                 computeMixedRollingResistance(s, collider1, collider2),
                 s.bodyType[externalManifold.bodyEntity1] = "DYNAMIC",
                 s.bodyType[externalManifold.bodyEntity2] = "DYNAMIC",
                 inverseInertiaTensorBody1, inverseInertiaTensorBody2),
         frictionVector1 |-> frictionVector1,
         frictionVector2 |-> frictionVector2,
         r1CrossT1 |-> r1CrossT1,
         r1CrossT2 |-> r1CrossT2,
         r2CrossT1 |-> r2CrossT1,
         r2CrossT2 |-> r2CrossT2,
         inverseFriction1Mass |->
             IF Gt(friction1Mass, Zero) THEN Div(One, friction1Mass) ELSE Zero,
         inverseFriction2Mass |->
             IF Gt(friction2Mass, Zero) THEN Div(One, friction2Mass) ELSE Zero,
         inverseTwistFrictionMass |->
             IF Gt(frictionTwistMass, Zero) THEN Div(One, frictionTwistMass) ELSE Zero]

\* lines 256-262: the friction point of a body, the mean of its contact points
frictionPointOf(sum, nbContacts) ==
    <<Div(sum[1], Dec(nbContacts, 1)), Div(sum[2], Dec(nbContacts, 1)),
      Div(sum[3], Dec(nbContacts, 1))>>

\* lines 292-308: the friction vectors of external manifold m, from the velocity
\* difference at its friction point
frictionVectorsOfManifold(s, m, frictionPointBody1, frictionPointBody2, normal) ==
    LET externalManifold == s.mAllContactManifolds[m + 1]
        rigidBodyIndex1 == s.entityIndex[externalManifold.bodyEntity1]
        rigidBodyIndex2 == s.entityIndex[externalManifold.bodyEntity2]
    IN  computeFrictionVectors(
            deltaVInit(s.mLinearVelocities[rigidBodyIndex1],
                       s.mAngularVelocities[rigidBodyIndex1],
                       s.mLinearVelocities[rigidBodyIndex2],
                       s.mAngularVelocities[rigidBodyIndex2],
                       VSub(frictionPointBody1, s.mCentersOfMassWorld[rigidBodyIndex1]),
                       VSub(frictionPointBody2, s.mCentersOfMassWorld[rigidBodyIndex2])),
            normal)

contactManifoldSolverWith(s, m, frictionPointBody1, frictionPointBody2, normal, t) ==
    contactManifoldSolverOf(s, m, frictionPointBody1, frictionPointBody2, normal, t[1], t[2])

contactManifoldSolverAt(s, m, frictionPointBody1, frictionPointBody2, normal) ==
    contactManifoldSolverWith(s, m, frictionPointBody1, frictionPointBody2, normal,
        frictionVectorsOfManifold(s, m, frictionPointBody1, frictionPointBody2, normal))

newContactManifoldSolver(s, m) ==
    LET externalManifold == s.mAllContactManifolds[m + 1]
        contactPointsStartIndex == externalManifold.contactPointsIndex
        last == contactPointsStartIndex + externalManifold.nbContactPoints - 1
    IN  contactManifoldSolverAt(s, m,
            frictionPointOf(sumWorldPoint1(s, m, contactPointsStartIndex, last),
                            externalManifold.nbContactPoints),
            frictionPointOf(sumWorldPoint2(s, m, contactPointsStartIndex, last),
                            externalManifold.nbContactPoints),
            VUnit(sumNormals(s, contactPointsStartIndex, last)))

\* faulty variant of initContactPoints: the external point is marked as resting
\* before the record reads its flag
RECURSIVE initContactPointsMarkedFirst(_, _, _, _)
initContactPointsMarkedFirst(s, m, c, last) ==
    IF c > last THEN s
    ELSE initContactPointsMarkedFirst(
             [s EXCEPT !.mContactPoints =
                           Append(@, newContactPointSolver(
                                         [s EXCEPT !.mAllContactPoints[c + 1].isRestingContact = TRUE],
                                         m, c)),
                       !.mAllContactPoints[c + 1].isRestingContact = TRUE,
                       !.mNbContactPoints = @ + 1],
             m, c + 1, last)

\* the loop over the contact points c .. last of external manifold m (lines 172-254):
\* build the point record, mark the external point as resting, count it
RECURSIVE initContactPoints(_, _, _, _)
initContactPoints(s, m, c, last) ==
    IF c > last THEN s
    ELSE initContactPoints(
             [s EXCEPT !.mContactPoints = Append(@, newContactPointSolver(s, m, c)),
                       !.mAllContactPoints[c + 1].isRestingContact = TRUE,
                       !.mNbContactPoints = @ + 1],
             m, c + 1, last)

\* faulty variant of initManifold: the manifold record is built but not counted
initManifoldUncounted(s, m) ==
    LET externalManifold == s.mAllContactManifolds[m + 1]
        contactPointsStartIndex == externalManifold.contactPointsIndex
        s1 == initContactPoints(s, m, contactPointsStartIndex,
                                contactPointsStartIndex + externalManifold.nbContactPoints - 1)
    IN  [s1 EXCEPT !.mContactConstraints = Append(@, newContactManifoldSolver(s, m))]

\* one pass of the loop over the manifolds of an island (lines 122-335)
initManifold(s, m) ==
    LET externalManifold == s.mAllContactManifolds[m + 1]
        contactPointsStartIndex == externalManifold.contactPointsIndex
        s1 == initContactPoints(s, m, contactPointsStartIndex,
                                contactPointsStartIndex + externalManifold.nbContactPoints - 1)
    IN  [s1 EXCEPT !.mContactConstraints = Append(@, newContactManifoldSolver(s, m)),
                   !.mNbContactManifolds = @ + 1]

RECURSIVE initManifolds(_, _, _)
initManifolds(s, m, end) ==
    IF m >= end THEN s ELSE initManifolds(initManifold(s, m), m + 1, end)

\* islandIndex counts from 0
initializeForIsland(s, islandIndex) ==
    LET contactManifoldsIndex == s.islands.contactManifoldsIndices[islandIndex + 1]
        nbContactManifolds == s.islands.nbContactManifolds[islandIndex + 1]
    IN  initManifolds(s, contactManifoldsIndex, contactManifoldsIndex + nbContactManifolds)

(***************************************************************************)
(* MemoryManager, frame arena: allocate and release                        *)
(* A block is [id, of, count]: count records of type `of`.  A pointer is   *)
(* a block id, 0 is nullptr.                                               *)
(***************************************************************************)
allocate(s, of, count) ==
    [s EXCEPT !.frame.live = @ \cup {[id |-> s.frame.next, of |-> of, count |-> count]},
              !.frame.next = @ + 1]
release(s, ptr, of, count) ==
    [s EXCEPT !.frame.live = @ \ {[id |-> ptr, of |-> of, count |-> count]},
              !.frame.released = Append(@, [id |-> ptr, of |-> of, count |-> count,
                  wasLive |-> [id |-> ptr, of |-> of, count |-> count] \in s.frame.live])]

(***************************************************************************)
(* ContactSolverSystem::init, up to the call of warmStart (lines 64-98)    *)
(***************************************************************************)
\* faulty variant of initIslands: the islands are visited from the last to the
\* first
RECURSIVE initIslandsLastFirst(_, _)
initIslandsLastFirst(s, i) ==
    IF i >= Len(s.islands.nbContactManifolds) THEN s
    ELSE LET rest == initIslandsLastFirst(s, i + 1)
         IN  IF s.islands.nbContactManifolds[i + 1] > 0
             THEN initializeForIsland(rest, i) ELSE rest

RECURSIVE initIslands(_, _)
initIslands(s, i) ==
    IF i >= Len(s.islands.nbContactManifolds) THEN s
    ELSE initIslands(IF s.islands.nbContactManifolds[i + 1] > 0
                     THEN initializeForIsland(s, i) ELSE s,
                     i + 1)

\* init returns before building anything (line 82)
initReturnsEarly(s) == Len(s.mAllContactManifolds) = 0 \/ Len(s.mAllContactPoints) = 0

\* faulty variant of init: the counters and the records of the init before are kept
initKeepingRecords(s, timeStep) ==
    LET nbContactManifolds == Len(s.mAllContactManifolds)
        nbContactPoints == Len(s.mAllContactPoints)
        s0 == [s EXCEPT !.mTimeStep = timeStep,
                        !.mContactConstraintsPtr = 0,
                        !.mContactPointsPtr = 0]
        s1 == [allocate(s0, "ContactPointSolver", nbContactPoints)
                  EXCEPT !.mContactPointsPtr = s0.frame.next]
        s2 == [allocate(s1, "ContactManifoldSolver", nbContactManifolds)
                  EXCEPT !.mContactConstraintsPtr = s1.frame.next]
    IN  IF initReturnsEarly(s) THEN s0 ELSE initIslands(s2, 0)

init(s, timeStep) ==
    LET nbContactManifolds == Len(s.mAllContactManifolds)
        nbContactPoints == Len(s.mAllContactPoints)
        s0 == [s EXCEPT !.mTimeStep = timeStep,
                        !.mNbContactManifolds = 0,
                        !.mNbContactPoints = 0,
                        !.mContactConstraints = <<>>,
                        !.mContactPoints = <<>>,
                        !.mContactConstraintsPtr = 0,
                        !.mContactPointsPtr = 0]
        s1 == [allocate(s0, "ContactPointSolver", nbContactPoints)
                  EXCEPT !.mContactPointsPtr = s0.frame.next]
        s2 == [allocate(s1, "ContactManifoldSolver", nbContactManifolds)
                  EXCEPT !.mContactConstraintsPtr = s1.frame.next]
    IN  IF initReturnsEarly(s) THEN s0 ELSE initIslands(s2, 0)

\* ContactSolverSystem::reset (lines 105-109)
reset(s) ==
    LET s1 == IF Len(s.mAllContactPoints) > 0
              THEN release(s, s.mContactPointsPtr, "ContactPointSolver",
                           Len(s.mAllContactPoints))
              ELSE s
    IN  IF Len(s1.mAllContactManifolds) > 0
        THEN release(s1, s1.mContactConstraintsPtr, "ContactManifoldSolver",
                     Len(s1.mAllContactManifolds))
        ELSE s1

(***************************************************************************)
(* ContactSolverSystem::warmStart                                          *)
(* c is the manifold record (from 1), cp the point record (from 1).        *)
(***************************************************************************)
\* faulty variant of warmStartPoint: the impulse of a point is applied whether the
\* point was resting or not
warmStartPointAlways(s, c, cp) ==
    LET mc == s.mContactConstraints[c]
        pt == s.mContactPoints[cp]
        b1 == mc.rigidBodyComponentIndexBody1
        b2 == mc.rigidBodyComponentIndexBody2
        impulsePenetration == VScale(pt.penetrationImpulse, pt.normal)
    IN  [s EXCEPT
            !.mConstrainedLinearVelocities[b1] =
                VSub(@, VScale(mc.massInverseBody1, impulsePenetration)),
            !.mConstrainedAngularVelocities[b1] =
                VSub(@, VScale(pt.penetrationImpulse, pt.i1TimesR1CrossN)),
            !.mConstrainedLinearVelocities[b2] =
                VAdd(@, VScale(mc.massInverseBody2, impulsePenetration)),
            !.mConstrainedAngularVelocities[b2] =
                VAdd(@, VScale(pt.penetrationImpulse, pt.i2TimesR2CrossN))]

\* faulty variant of warmStartPoint: the split impulse of a resting point is
\* restored with the impulse of the point
warmStartPointRestoringSplit(s, c, cp) ==
    LET mc == s.mContactConstraints[c]
        pt == s.mContactPoints[cp]
        b1 == mc.rigidBodyComponentIndexBody1
        b2 == mc.rigidBodyComponentIndexBody2
        impulsePenetration == VScale(pt.penetrationImpulse, pt.normal)
    IN  IF pt.isRestingContact
        THEN [s EXCEPT
                 !.mContactPoints[cp].penetrationSplitImpulse = pt.penetrationImpulse,
                 !.mConstrainedLinearVelocities[b1] =
                     VSub(@, VScale(mc.massInverseBody1, impulsePenetration)),
                 !.mConstrainedAngularVelocities[b1] =
                     VSub(@, VScale(pt.penetrationImpulse, pt.i1TimesR1CrossN)),
                 !.mConstrainedLinearVelocities[b2] =
                     VAdd(@, VScale(mc.massInverseBody2, impulsePenetration)),
                 !.mConstrainedAngularVelocities[b2] =
                     VAdd(@, VScale(pt.penetrationImpulse, pt.i2TimesR2CrossN))]
        ELSE [s EXCEPT !.mContactPoints[cp].penetrationImpulse = Zero]

\* lines 357-388: one contact point
warmStartPoint(s, c, cp) ==
    LET mc == s.mContactConstraints[c]
        pt == s.mContactPoints[cp]
        b1 == mc.rigidBodyComponentIndexBody1
        b2 == mc.rigidBodyComponentIndexBody2
        impulsePenetration == VScale(pt.penetrationImpulse, pt.normal)
    IN  IF pt.isRestingContact
        THEN [s EXCEPT
                 !.mConstrainedLinearVelocities[b1] =
                     VSub(@, VScale(mc.massInverseBody1, impulsePenetration)),
                 !.mConstrainedAngularVelocities[b1] =
                     VSub(@, VScale(pt.penetrationImpulse, pt.i1TimesR1CrossN)),
                 !.mConstrainedLinearVelocities[b2] =
                     VAdd(@, VScale(mc.massInverseBody2, impulsePenetration)),
                 !.mConstrainedAngularVelocities[b2] =
                     VAdd(@, VScale(pt.penetrationImpulse, pt.i2TimesR2CrossN))]
        ELSE [s EXCEPT !.mContactPoints[cp].penetrationImpulse = Zero]

RECURSIVE warmStartPoints(_, _, _, _)
warmStartPoints(s, c, cp, last) ==
    IF cp > last THEN s ELSE warmStartPoints(warmStartPoint(s, c, cp), c, cp + 1, last)

\* faulty variant of projectFrictionImpulses: the impulses are kept as they are
projectFrictionImpulsesKept(mc) == <<mc.friction1Impulse, mc.friction2Impulse>>

\* lines 397-406: the old friction impulses projected on the new friction vectors
projectFrictionImpulses(mc) ==
    LET oldFrictionImpulse ==
            VAdd(VScale(mc.friction1Impulse, mc.oldFrictionVector1),
                 VScale(mc.friction2Impulse, mc.oldFrictionVector2))
    IN  <<VDot(oldFrictionImpulse, mc.frictionVector1),
          VDot(oldFrictionImpulse, mc.frictionVector2)>>

\* lines 395-491: the manifold-level impulses
warmStartManifold(s, c, atLeastOneRestingContactPoint) ==
    LET mc0 == s.mContactConstraints[c]
        b1 == mc0.rigidBodyComponentIndexBody1
        b2 == mc0.rigidBodyComponentIndexBody2
        f == projectFrictionImpulses(mc0)
        mc == [mc0 EXCEPT !.friction1Impulse = f[1], !.friction2Impulse = f[2]]
        I1 == mc.inverseInertiaTensorBody1
        I2 == mc.inverseInertiaTensorBody2
    IN  IF atLeastOneRestingContactPoint
        THEN [s EXCEPT
                 !.mContactConstraints[c] = mc,
                 \* first friction constraint
                 !.mConstrainedLinearVelocities[b1] =
                     VSub(@, VScale(mc.massInverseBody1,
                                    VScale(mc.friction1Impulse, mc.frictionVector1))),
                 !.mConstrainedAngularVelocities[b1] =
                     VAdd(@, MatVec(I1, VScale(mc.friction1Impulse, VNeg(mc.r1CrossT1)))),
                 !.mConstrainedLinearVelocities[b2] =
                     VAdd(@, VScale(mc.massInverseBody2,
                                    VScale(mc.friction1Impulse, mc.frictionVector1))),
                 !.mConstrainedAngularVelocities[b2] =
                     VAdd(@, MatVec(I2, VScale(mc.friction1Impulse, mc.r2CrossT1))),
                 \* second friction constraint
                 !.mConstrainedLinearVelocities[b1] =
                     VSub(@, VScale(mc.massInverseBody1,
                                    VScale(mc.friction2Impulse, mc.frictionVector2))),
                 !.mConstrainedAngularVelocities[b1] =
                     VAdd(@, MatVec(I1, VScale(mc.friction2Impulse, VNeg(mc.r1CrossT2)))),
                 !.mConstrainedLinearVelocities[b2] =
                     VAdd(@, VScale(mc.massInverseBody2,
                                    VScale(mc.friction2Impulse, mc.frictionVector2))),
                 !.mConstrainedAngularVelocities[b2] =
                     VAdd(@, MatVec(I2, VScale(mc.friction2Impulse, mc.r2CrossT2))),
                 \* twist friction constraint
                 !.mConstrainedAngularVelocities[b1] =
                     VAdd(@, MatVec(I1, VScale(mc.frictionTwistImpulse, VNeg(mc.normal)))),
                 !.mConstrainedAngularVelocities[b2] =
                     VAdd(@, MatVec(I2, VScale(mc.frictionTwistImpulse, mc.normal))),
                 \* rolling resistance
                 !.mConstrainedAngularVelocities[b1] =
                     VSub(@, MatVec(I1, mc.rollingResistanceImpulse)),
                 !.mConstrainedAngularVelocities[b2] =
                     VAdd(@, MatVec(I2, mc.rollingResistanceImpulse))]
        ELSE [s EXCEPT !.mContactConstraints[c].friction1Impulse = Zero,
                       !.mContactConstraints[c].friction2Impulse = Zero,
                       !.mContactConstraints[c].frictionTwistImpulse = Zero,
                       !.mContactConstraints[c].rollingResistanceImpulse = VZero]

\* the loop over the manifold records c .. mNbContactManifolds; contactPointIndex is
\* the (from 1) index of the first point record of manifold c
RECURSIVE warmStartFrom(_, _, _)
warmStartFrom(s, c, contactPointIndex) ==
    IF c > s.mNbContactManifolds THEN s
    ELSE LET last == contactPointIndex + s.mContactConstraints[c].nbContacts - 1
             atLeastOneRestingContactPoint ==
                 \E k \in contactPointIndex .. last : s.mContactPoints[k].isRestingContact
             s1 == warmStartPoints(s, c, contactPointIndex, last)
         IN  warmStartFrom(warmStartManifold(s1, c, atLeastOneRestingContactPoint),
                           c + 1, last + 1)

\* faulty variant of warmStart: the impulses of the external points are cleared
\* once warm start has used them
warmStartClearingExternal(s) ==
    [warmStartFrom(s, 1, 1) EXCEPT
        !.mAllContactPoints = [k \in DOMAIN @ |-> [@[k] EXCEPT !.penetrationImpulse = Zero]]]

warmStart(s) == warmStartFrom(s, 1, 1)

\* all of init: the records are built and warm start is run, unless init returns early
initAndWarmStart(s, timeStep) ==
    IF initReturnsEarly(s) THEN init(s, timeStep) ELSE warmStart(init(s, timeStep))

(***************************************************************************)
(* ContactSolverSystem::solve                                              *)
(* One operator per constraint update of the sweep, applied in the order   *)
(* of the source by the actions below.  c is the manifold record (from 1), *)
(* cp the point record (from 1).                                           *)
(***************************************************************************)
\* v2c + a1*b1 - a2*b2 - v1c - a3*b3 + a4*b4 : one component of deltaV as solve
\* writes it (lines 523-528, 606-611, 653-660, 703-708)
deltaVComponent(v2c, a1, b1, a2, b2, v1c, a3, b3, a4, b4) ==
    Add(Sub(Sub(Sub(Add(v2c, Mul(a1, b1)), Mul(a2, b2)), v1c), Mul(a3, b3)), Mul(a4, b4))

deltaVSolve(v1, w1, v2, w2, r1, r2) ==
    <<deltaVComponent(v2[1], w2[2], r2[3], w2[3], r2[2], v1[1], w1[2], r1[3], w1[3], r1[2]),
      deltaVComponent(v2[2], w2[3], r2[1], w2[1], r2[3], v1[2], w1[3], r1[1], w1[1], r1[3]),
      deltaVComponent(v2[3], w2[1], r2[2], w2[2], r2[1], v1[3], w1[1], r1[2], w1[2], r1[1])>>

\* line 504
betaOf(s) == IF s.mIsSplitImpulseActive THEN BETA_SPLIT_IMPULSE ELSE BETA

\* faulty variant of biasPenetrationDepthOf: the bias is taken whatever the depth
biasPenetrationDepthUnconditional(s, pt) ==
    Mul(Neg(Div(betaOf(s), s.mTimeStep)), Sub(pt.penetrationDepth, SLOP))

\* lines 533-538: the position-correction bias of a point
biasPenetrationDepthOf(s, pt) ==
    IF Gt(pt.penetrationDepth, SLOP)
    THEN Mul(Neg(Div(betaOf(s), s.mTimeStep)), Max(Zero, Sub(pt.penetrationDepth, SLOP)))
    ELSE Zero

\* faulty variant of penetrationDeltaLambda: the position-correction bias enters
\* the velocity correction whether split impulse is active or not
penetrationDeltaLambdaWithDepthBias(s, pt, Jv) ==
    Mul(Neg(Add(Jv, Add(biasPenetrationDepthOf(s, pt), pt.restitutionBias))),
        pt.inversePenetrationMass)

\* faulty variant of penetrationDeltaLambda: the correction of a point whose
\* stored inverse mass is 0 is taken with the inverse mass 1
penetrationDeltaLambdaUnitMass(s, pt, Jv) ==
    LET b == Add(biasPenetrationDepthOf(s, pt), pt.restitutionBias)
        inverseMass == IF pt.inversePenetrationMass = Zero THEN One
                       ELSE pt.inversePenetrationMass
    IN  IF s.mIsSplitImpulseActive
        THEN Mul(Neg(Add(Jv, pt.restitutionBias)), inverseMass)
        ELSE Mul(Neg(Add(Jv, b)), inverseMass)

\* faulty variant of penetrationDeltaLambda: half of the correction is taken
penetrationDeltaLambdaHalved(s, pt, Jv) ==
    LET b == Add(biasPenetrationDepthOf(s, pt), pt.restitutionBias)
    IN  IF s.mIsSplitImpulseActive
        THEN Mul(Dec(1, 2), Mul(Neg(Add(Jv, pt.restitutionBias)), pt.inversePenetrationMass))
        ELSE Mul(Dec(1, 2), Mul(Neg(Add(Jv, b)), pt.inversePenetrationMass))

\* lines 541-548: the unclamped correction of the penetration impulse
penetrationDeltaLambda(s, pt, Jv) ==
    LET b == Add(biasPenetrationDepthOf(s, pt), pt.restitutionBias)
    IN  IF s.mIsSplitImpulseActive
        THEN Mul(Neg(Add(Jv, pt.restitutionBias)), pt.inversePenetrationMass)
        ELSE Mul(Neg(Add(Jv, b)), pt.inversePenetrationMass)

\* faulty variant of projectImpulse: the accumulated impulse is not projected on
\* the non-negative half line
projectImpulseUnclamped(lambda, deltaLambda) == Add(lambda, deltaLambda)

\* lines 550-551 and 618-620: the accumulated impulse after the correction
projectImpulse(lambda, deltaLambda) == Max(Add(lambda, deltaLambda), Zero)

\* lines 567-570 and 585-590: the constrained velocities of body b times its factors
applyVelocityFactors(s, b) ==
    [s EXCEPT !.mConstrainedLinearVelocities[b] =
                  VMulComp(@, s.mLinearVelocitiesFactors[b]),
              !.mConstrainedAngularVelocities[b] =
                  VMulComp(@, s.mAngularVelocitiesFactors[b])]

\* lines 571-574: the velocities of body b times its factors
applyVelocityFactorsToVelocities(s, b) ==
    [s EXCEPT !.mLinearVelocities[b] = VMulComp(@, s.mLinearVelocitiesFactors[b]),
              !.mAngularVelocities[b] = VMulComp(@, s.mAngularVelocitiesFactors[b])]

\* faulty variant of manifoldLoopHead: the sum of the penetration impulses is
\* carried over from the manifold before
manifoldLoopHeadKeepingSum(s) == s

\* line 509: the head of the loop over the manifolds
manifoldLoopHead(s) == [s EXCEPT !.sumPenetrationImpulse = Zero]

\* lines 521-594: the penetration constraint of one contact point
solvePenetration(s, c, cp) ==
    LET mc == s.mContactConstraints[c]
        pt == s.mContactPoints[cp]
        b1 == mc.rigidBodyComponentIndexBody1
        b2 == mc.rigidBodyComponentIndexBody2
        deltaV == deltaVSolve(s.mConstrainedLinearVelocities[b1],
                              s.mConstrainedAngularVelocities[b1],
                              s.mConstrainedLinearVelocities[b2],
                              s.mConstrainedAngularVelocities[b2], pt.r1, pt.r2)
        Jv == Add(Add(Mul(deltaV[1], pt.normal[1]), Mul(deltaV[2], pt.normal[2])),
                  Mul(deltaV[3], pt.normal[3]))
        lambdaTemp == pt.penetrationImpulse
        penetrationImpulse == projectImpulse(lambdaTemp, penetrationDeltaLambda(s, pt, Jv))
        deltaLambda == Sub(penetrationImpulse, lambdaTemp)
        linearImpulse == VScale(deltaLambda, pt.normal)
        s1 == [s EXCEPT
                  !.mContactPoints[cp].penetrationImpulse = penetrationImpulse,
                  !.mConstrainedLinearVelocities[b1] =
                      VSub(@, VScale(mc.massInverseBody1, linearImpulse)),
                  !.mConstrainedAngularVelocities[b1] =
                      VSub(@, VScale(deltaLambda, pt.i1TimesR1CrossN))]
        s2 == applyVelocityFactorsToVelocities(applyVelocityFactors(s1, b1), b1)
        s3 == [s2 EXCEPT
                  !.mConstrainedLinearVelocities[b2] =
                      VAdd(@, VScale(mc.massInverseBody2, linearImpulse)),
                  !.mConstrainedAngularVelocities[b2] =
                      VAdd(@, VScale(deltaLambda, pt.i2TimesR2CrossN))]
        s4 == applyVelocityFactors(applyVelocityFactors(s3, b2), b1)
    IN  [s4 EXCEPT !.sumPenetrationImpulse = Add(@, penetrationImpulse)]

\* lines 596-644: the split impulse (position correction) of one contact point
solveSplit(s, c, cp) ==
    LET mc == s.mContactConstraints[c]
        pt == s.mContactPoints[cp]
        b1 == mc.rigidBodyComponentIndexBody1
        b2 == mc.rigidBodyComponentIndexBody2
        deltaVSplit == deltaVSolve(s.mSplitLinearVelocities[b1],
                                   s.mSplitAngularVelocities[b1],
                                   s.mSplitLinearVelocities[b2],
                                   s.mSplitAngularVelocities[b2], pt.r1, pt.r2)
        JvSplit == Add(Add(Mul(deltaVSplit[1], pt.normal[1]),
                           Mul(deltaVSplit[2], pt.normal[2])),
                       Mul(deltaVSplit[3], pt.normal[3]))
        lambdaTempSplit == pt.penetrationSplitImpulse
        penetrationSplitImpulse ==
            projectImpulse(lambdaTempSplit,
                           Mul(Neg(Add(JvSplit, biasPenetrationDepthOf(s, pt))),
                               pt.inversePenetrationMass))
        deltaLambdaSplit == Sub(penetrationSplitImpulse, lambdaTempSplit)
        linearImpulse == VScale(deltaLambdaSplit, pt.normal)
    IN  [s EXCEPT
            !.mContactPoints[cp].penetrationSplitImpulse = penetrationSplitImpulse,
            !.mSplitLinearVelocities[b1] =
                VSub(@, VScale(mc.massInverseBody1, linearImpulse)),
            !.mSplitAngularVelocities[b1] =
                VSub(@, VScale(deltaLambdaSplit, pt.i1TimesR1CrossN)),
            !.mSplitLinearVelocities[b2] =
                VAdd(@, VScale(mc.massInverseBody2, linearImpulse)),
            !.mSplitAngularVelocities[b2] =
                VAdd(@, VScale(deltaLambdaSplit, pt.i2TimesR2CrossN))]

\* lines 667, 714, 754
frictionLimitOf(mc, sumPenetrationImpulse) ==
    Mul(mc.frictionCoefficient, sumPenetrationImpulse)

\* lines 669-671, 716-718, 756-758: std::max(-limit, std::min(lambda + deltaLambda, limit))
clampFrictionImpulse(lambda, deltaLambda, frictionLimit) ==
    Max(Neg(frictionLimit), Min(Add(lambda, deltaLambda), frictionLimit))

\* the velocity difference at the friction point (lines 653-660, 703-708)
deltaVFriction(s, mc) ==
    deltaVSolve(s.mConstrainedLinearVelocities[mc.rigidBodyComponentIndexBody1],
                s.mConstrainedAngularVelocities[mc.rigidBodyComponentIndexBody1],
                s.mConstrainedLinearVelocities[mc.rigidBodyComponentIndexBody2],
                s.mConstrainedAngularVelocities[mc.rigidBodyComponentIndexBody2],
                mc.r1Friction, mc.r2Friction)

\* lines 674-697 and 721-744: the impulse deltaLambda along friction vector t applied
\* to both bodies, with the levers r1CrossT and r2CrossT
applyFrictionImpulse(s, mc, deltaLambda, t, r1CrossT, r2CrossT) ==
    LET b1 == mc.rigidBodyComponentIndexBody1
        b2 == mc.rigidBodyComponentIndexBody2
        angularImpulseBody1 == VScale(deltaLambda, VNeg(r1CrossT))
        linearImpulseBody2 == VScale(deltaLambda, t)
        angularImpulseBody2 == VScale(deltaLambda, r2CrossT)
    IN  [s EXCEPT
            !.mConstrainedLinearVelocities[b1] =
                VSub(@, VScale(mc.massInverseBody1, linearImpulseBody2)),
            !.mConstrainedAngularVelocities[b1] =
                VAdd(@, MatVec(mc.inverseInertiaTensorBody1, angularImpulseBody1)),
            !.mConstrainedLinearVelocities[b2] =
                VAdd(@, VScale(mc.massInverseBody2, linearImpulseBody2)),
            !.mConstrainedAngularVelocities[b2] =
                VAdd(@, MatVec(mc.inverseInertiaTensorBody2, angularImpulseBody2))]

\* lines 649-697: first friction constraint at the center of the contact manifold
solveFriction1(s, c) ==
    LET mc == s.mContactConstraints[c]
        deltaV == deltaVFriction(s, mc)
        Jv == VDot(deltaV, mc.frictionVector1)
        lambdaTemp == mc.friction1Impulse
        friction1Impulse ==
            clampFrictionImpulse(lambdaTemp, Mul(Neg(Jv), mc.inverseFriction1Mass),
                                 frictionLimitOf(mc, s.sumPenetrationImpulse))
        deltaLambda == Sub(friction1Impulse, lambdaTemp)
    IN  applyFrictionImpulse(
            [s EXCEPT !.mContactConstraints[c].friction1Impulse = friction1Impulse],
            mc, deltaLambda, mc.frictionVector1, mc.r1CrossT1, mc.r2CrossT1)

\* lines 699-744: second friction constraint at the center of the contact manifold
solveFriction2(s, c) ==
    LET mc == s.mContactConstraints[c]
        deltaV == deltaVFriction(s, mc)
        Jv == VDot(deltaV, mc.frictionVector2)
        lambdaTemp == mc.friction2Impulse
        friction2Impulse ==
            clampFrictionImpulse(lambdaTemp, Mul(Neg(Jv), mc.inverseFriction2Mass),
                                 frictionLimitOf(mc, s.sumPenetrationImpulse))
        deltaLambda == Sub(friction2Impulse, lambdaTemp)
    IN  applyFrictionImpulse(
            [s EXCEPT !.mContactConstraints[c].friction2Impulse = friction2Impulse],
            mc, deltaLambda, mc.frictionVector2, mc.r1CrossT2, mc.r2CrossT2)

\* lines 746-770: twist friction constraint at the center of the contact manifold
solveTwist(s, c) ==
    LET mc == s.mContactConstraints[c]
        b1 == mc.rigidBodyComponentIndexBody1
        b2 == mc.rigidBodyComponentIndexBody2
        deltaV == VSub(s.mConstrainedAngularVelocities[b2],
                       s.mConstrainedAngularVelocities[b1])
        Jv == VDot(deltaV, mc.normal)
        lambdaTemp == mc.frictionTwistImpulse
        frictionTwistImpulse ==
            clampFrictionImpulse(lambdaTemp, Mul(Neg(Jv), mc.inverseTwistFrictionMass),
                                 frictionLimitOf(mc, s.sumPenetrationImpulse))
        deltaLambda == Sub(frictionTwistImpulse, lambdaTemp)
        angularImpulseBody2 == VScale(deltaLambda, mc.normal)
    IN  [s EXCEPT
            !.mContactConstraints[c].frictionTwistImpulse = frictionTwistImpulse,
            !.mConstrainedAngularVelocities[b1] =
                VSub(@, MatVec(mc.inverseInertiaTensorBody1, angularImpulseBody2)),
            !.mConstrainedAngularVelocities[b2] =
                VAdd(@, MatVec(mc.inverseInertiaTensorBody2, angularImpulseBody2))]

\* line 781
rollingLimitOf(mc, sumPenetrationImpulse) ==
    Mul(mc.rollingResistanceFactor, sumPenetrationImpulse)

\* faulty variant of solveRolling: the accumulated impulse is not clamped
solveRollingUnclamped(s, c) ==
    LET mc == s.mContactConstraints[c]
        b1 == mc.rigidBodyComponentIndexBody1
        b2 == mc.rigidBodyComponentIndexBody2
        JvRolling == VSub(s.mConstrainedAngularVelocities[b2],
                          s.mConstrainedAngularVelocities[b1])
        deltaLambdaRolling == MatVec(mc.inverseRollingResistance, VNeg(JvRolling))
    IN  IF Gt(mc.rollingResistanceFactor, Zero)
        THEN [s EXCEPT
                 !.mContactConstraints[c].rollingResistanceImpulse =
                     VAdd(@, deltaLambdaRolling),
                 !.mConstrainedAngularVelocities[b1] =
                     VSub(@, MatVec(mc.inverseInertiaTensorBody1, deltaLambdaRolling)),
                 !.mConstrainedAngularVelocities[b2] =
                     VAdd(@, MatVec(mc.inverseInertiaTensorBody2, deltaLambdaRolling))]
        ELSE s

\* lines 772-792: rolling resistance constraint at the center of the contact manifold
solveRolling(s, c) ==
    LET mc == s.mContactConstraints[c]
        b1 == mc.rigidBodyComponentIndexBody1
        b2 == mc.rigidBodyComponentIndexBody2
        JvRolling == VSub(s.mConstrainedAngularVelocities[b2],
                          s.mConstrainedAngularVelocities[b1])
        lambdaTempRolling == mc.rollingResistanceImpulse
        rollingResistanceImpulse ==
            clamp(VAdd(lambdaTempRolling,
                       MatVec(mc.inverseRollingResistance, VNeg(JvRolling))),
                  rollingLimitOf(mc, s.sumPenetrationImpulse))
        deltaLambdaRolling == VSub(rollingResistanceImpulse, lambdaTempRolling)
    IN  IF Gt(mc.rollingResistanceFactor, Zero)
        THEN [s EXCEPT
                 !.mContactConstraints[c].rollingResistanceImpulse = rollingResistanceImpulse,
                 !.mConstrainedAngularVelocities[b1] =
                     VSub(@, MatVec(mc.inverseInertiaTensorBody1, deltaLambdaRolling)),
                 !.mConstrainedAngularVelocities[b2] =
                     VAdd(@, MatVec(mc.inverseInertiaTensorBody2, deltaLambdaRolling))]
        ELSE s

(***************************************************************************)
(* ContactSolverSystem::storeImpulses                                      *)
(***************************************************************************)
\* faulty variant of storePoints: the impulse of point record cp is written to the
\* external point at the record's own position in the list
RECURSIVE storePointsByRecordIndex(_, _, _)
storePointsByRecordIndex(s, cp, last) ==
    IF cp > last THEN s
    ELSE storePointsByRecordIndex(
             [s EXCEPT !.mAllContactPoints[cp].penetrationImpulse =
                           s.mContactPoints[cp].penetrationImpulse],
             cp + 1, last)

\* lines 829-834
RECURSIVE storePoints(_, _, _)
storePoints(s, cp, last) ==
    IF cp > last THEN s
    ELSE storePoints(
             [s EXCEPT !.mAllContactPoints[s.mContactPoints[cp].externalContact + 1]
                           .penetrationImpulse = s.mContactPoints[cp].penetrationImpulse],
             cp + 1, last)

\* lines 836-841
storeManifold(s, c) ==
    LET mc == s.mContactConstraints[c]
        e == mc.externalContactManifold + 1
    IN  [s EXCEPT !.mAllContactManifolds[e].frictionImpulse1 = mc.friction1Impulse,
                  !.mAllContactManifolds[e].frictionImpulse2 = mc.friction2Impulse,
                  !.mAllContactManifolds[e].frictionTwistImpulse = mc.frictionTwistImpulse,
                  !.mAllContactManifolds[e].rollingResistanceImpulse =
                      mc.rollingResistanceImpulse,
                  !.mAllContactManifolds[e].frictionVector1 = mc.frictionVector1,
                  !.mAllContactManifolds[e].frictionVector2 = mc.frictionVector2]

RECURSIVE storeFrom(_, _, _)
storeFrom(s, c, contactPointIndex) ==
    IF c > s.mNbContactManifolds THEN s
    ELSE LET last == contactPointIndex + s.mContactConstraints[c].nbContacts - 1
         IN  storeFrom(storeManifold(storePoints(s, contactPointIndex, last), c),
                       c + 1, last + 1)

storeImpulses(s) == storeFrom(s, 1, 1)

(***************************************************************************)
(* The world the solver is run on                                          *)
(*                                                                         *)
(* Three bodies: A and B dynamic (unit mass, unit inertia), G static.      *)
(* A rests on G with two contact points (normal from A to G), B rests on G *)
(* with one, and A touches B with one contact point whose normal is the x  *)
(* axis.  The external lists, the island table, the velocities of A, its   *)
(* material and its velocity factors are the inputs.                       *)
(***************************************************************************)
D(n, d) == Dec(n, d)
V3(x, y, z) == <<Dec(x, 1), Dec(y, 1), Dec(z, 1)>>
Ones == V3(1, 1, 1)

\* Number of solve() calls the caller may make in one step.
MaxIter == 2
\* Number of physics steps.
MaxSteps == 2

Entities == {"A", "B", "G"}
bodyIndexOf == [e \in Entities |-> CASE e = "A" -> 1 [] e = "B" -> 2 [] e = "G" -> 3]
colliderOf == [e \in Entities |-> CASE e = "A" -> "cA" [] e = "B" -> "cB" [] e = "G" -> "cG"]
Colliders == {"cA", "cB", "cG"}

\* B's collider is turned by half a turn about the z axis
HalfTurnZ == <<V3(-1, 0, 0), V3(0, -1, 0), V3(0, 0, 1)>>

newPoint(local1, local2, normal, depth) ==
    [localPointOnShape1 |-> local1, localPointOnShape2 |-> local2, normal |-> normal,
     penetrationDepth |-> depth, isRestingContact |-> FALSE, penetrationImpulse |-> Zero]

newManifold(e1, e2, index, nb) ==
    [bodyEntity1 |-> e1, bodyEntity2 |-> e2,
     colliderEntity1 |-> colliderOf[e1], colliderEntity2 |-> colliderOf[e2],
     contactPointsIndex |-> index, nbContactPoints |-> nb,
     frictionImpulse1 |-> Zero, frictionImpulse2 |-> Zero, frictionTwistImpulse |-> Zero,
     rollingResistanceImpulse |-> VZero, frictionVector1 |-> VZero, frictionVector2 |-> VZero]

\* contact points: A on G (left, deep), A on G (right, at the slop), A against B, B on G
PointAG1 == newPoint(V3(-1, -1, 0), V3(-1, 0, 0), V3(0, -1, 0), D(51, 100))
PointAG2 == newPoint(V3(1, -1, 0), V3(1, 0, 0), V3(0, -1, 0), D(1, 100))
PointAB == newPoint(V3(1, 1, 0), V3(1, -1, 0), V3(1, 0, 0), Zero)
PointBG == newPoint(V3(0, 1, 0), V3(2, 0, 0), V3(0, -1, 0), D(51, 100))

\* the external lists and the island table
Layouts ==
    {\* A on G and A against B, one island
     [manifolds |-> <<newManifold("A", "G", 0, 2), newManifold("A", "B", 2, 1)>>,
      points |-> <<PointAG1, PointAG2, PointAB>>,
      islands |-> [nbContactManifolds |-> <<2>>, contactManifoldsIndices |-> <<0>>]],
     \* A on G and B on G, two islands listed against the order of the manifold list
     [manifolds |-> <<newManifold("A", "G", 0, 2), newManifold("B", "G", 2, 1)>>,
      points |-> <<PointAG1, PointAG2, PointBG>>,
      islands |-> [nbContactManifolds |-> <<1, 1>>, contactManifoldsIndices |-> <<1, 0>>]],
     \* A on G in an island, an island without manifolds, B on G in no island
     [manifolds |-> <<newManifold("A", "G", 0, 2), newManifold("B", "G", 2, 1)>>,
      points |-> <<PointAG1, PointAG2, PointBG>>,
      islands |-> [nbContactManifolds |-> <<1, 0>>, contactManifoldsIndices |-> <<0, 0>>]],
     \* no contact at all
     [manifolds |-> <<>>, points |-> <<>>,
      islands |-> [nbContactManifolds |-> <<>>, contactManifoldsIndices |-> <<>>]],
     \* a point list that is not empty with a manifold list that is
     [manifolds |-> <<>>, points |-> <<PointAG1>>,
      islands |-> [nbContactManifolds |-> <<0>>, contactManifoldsIndices |-> <<0>>]]}

\* linear and angular velocity of A at the start of the first step
MotionsA ==
    {[v |-> V3(0, -1, 0), w |-> V3(0, 0, 0)],
     [v |-> V3(4, -1, 0), w |-> V3(0, 0, 1)],
     [v |-> V3(0, 1, 0), w |-> V3(0, 0, 1)],
     [v |-> V3(0, -1, 0), w |-> V3(0, 1, 0)],
     [v |-> V3(0, -1, 1), w |-> V3(0, 0, 0)]}

\* material of A's collider; the colliders of B and G have friction 1 and nothing else
MaterialsA ==
    {[bounciness |-> Zero, frictionCoefficient |-> D(1, 4), rollingResistance |-> Zero],
     [bounciness |-> D(1, 2), frictionCoefficient |-> D(1, 4), rollingResistance |-> One]}
MaterialOther == [bounciness |-> Zero, frictionCoefficient |-> One, rollingResistance |-> Zero]

\* linear and angular velocity factors of A
FactorsA ==
    {[linear |-> Ones, angular |-> Ones],
     [linear |-> <<Zero, One, One>>, angular |-> <<One, One, D(1, 2)>>]}

\* what the integration of the external forces adds to the velocity of a dynamic body
GravityStep == <<Zero, D(-1, 4), Zero>>

World(layout, motion, material, factors, split) ==
    [entityIndex |-> bodyIndexOf,
     bodyType |-> [e \in Entities |-> IF e = "G" THEN "STATIC" ELSE "DYNAMIC"],
     worldInertiaTensorInverse |-> [e \in Entities |-> IF e = "G" THEN MZero ELSE MDiag(One)],
     localToWorld |->
         [k \in Colliders |->
             CASE k = "cA" -> [position |-> V3(0, 1, 0), orientation |-> MDiag(One)]
               [] k = "cB" -> [position |-> V3(2, 1, 0), orientation |-> HalfTurnZ]
               [] k = "cG" -> [position |-> VZero, orientation |-> MDiag(One)]],
     material |-> [k \in Colliders |-> IF k = "cA" THEN material ELSE MaterialOther],
     islands |-> layout.islands,
     mCentersOfMassWorld |-> <<V3(0, 1, 0), V3(2, 1, 0), V3(0, 0, 0)>>,
     mLinearVelocities |-> <<motion.v, V3(-1, 0, 0), VZero>>,
     mAngularVelocities |-> <<motion.w, VZero, VZero>>,
     mConstrainedLinearVelocities |->
         <<VAdd(motion.v, GravityStep), VAdd(V3(-1, 0, 0), GravityStep), VZero>>,
     mConstrainedAngularVelocities |-> <<motion.w, VZero, VZero>>,
     mSplitLinearVelocities |-> <<VZero, VZero, VZero>>,
     mSplitAngularVelocities |-> <<VZero, VZero, VZero>>,
     mInverseMasses |-> <<One, One, Zero>>,
     mLinearVelocitiesFactors |-> <<factors.linear, Ones, Ones>>,
     mAngularVelocitiesFactors |-> <<factors.angular, Ones, Ones>>,
     mRestitutionVelocityThreshold |-> One,
     mIsSplitImpulseActive |-> split,
     timeStep |-> D(1, 5),
     mAllContactManifolds |-> layout.manifolds,
     mAllContactPoints |-> layout.points,
     mTimeStep |-> Zero,
     mNbContactManifolds |-> 0,
     mNbContactPoints |-> 0,
     mContactConstraints |-> <<>>,
     mContactPoints |-> <<>>,
     mContactConstraintsPtr |-> 0,
     mContactPointsPtr |-> 0,
     sumPenetrationImpulse |-> Zero,
     frame |-> [live |-> {}, next |-> 1, released |-> <<>>]]

(***************************************************************************)
(* The engine between two steps: the constrained velocities become the     *)
(* velocities, the split velocities are cleared, external forces are       *)
(* integrated, and the collision detection keeps or replaces each contact  *)
(* point.  A replaced point is new: it is not resting; its impulse is 0,   *)
(* or, under "evenStale", what the point it replaces held (the solver is   *)
(* specified for whatever a new point carries).                            *)
(***************************************************************************)
Persistence == {"all", "odd", "evenStale"}

persists(persistence, k) ==
    CASE persistence = "all" -> TRUE
      [] persistence = "odd" -> k % 2 = 1
      [] persistence = "evenStale" -> k % 2 = 0

newFrame(s, persistence) ==
    [s EXCEPT
        !.mLinearVelocities = s.mConstrainedLinearVelocities,
        !.mAngularVelocities = s.mConstrainedAngularVelocities,
        !.mConstrainedLinearVelocities =
            [b \in DOMAIN @ |-> IF s.mInverseMasses[b] = Zero THEN @[b]
                                ELSE VAdd(@[b], GravityStep)],
        !.mSplitLinearVelocities = [b \in DOMAIN @ |-> VZero],
        !.mSplitAngularVelocities = [b \in DOMAIN @ |-> VZero],
        !.mAllContactPoints =
            [k \in DOMAIN @ |->
                IF persists(persistence, k) THEN @[k]
                ELSE [@[k] EXCEPT !.isRestingContact = FALSE,
                                  !.penetrationImpulse =
                                      IF persistence = "evenStale" THEN @ ELSE Zero]]]

\* The worlds in which the impulses whose length the solver takes lie along one
\* axis, so that the length is exact: A leaves the x-y plane (it spins about the
\* vertical axis, or slides along z) only where it touches nothing but the ground
\* and has no rolling resistance.
AxisAligned(layout, motion, material) ==
    (motion.w[2] = Zero /\ motion.v[3] = Zero)
    \/ /\ material.rollingResistance = Zero
       /\ \A k \in DOMAIN layout.manifolds : layout.manifolds[k].bodyEntity2 = "G"

\* Two spheres head-on: A moves along +x against B, which moves along -x; the one
\* contact point lies on the line of the two centres (r1 and r2 along the normal),
\* the restitution of A's collider is 1.
PointHeadOn == newPoint(V3(1, 0, 0), V3(1, 0, 0), V3(1, 0, 0), Zero)
LayoutHeadOn ==
    [manifolds |-> <<newManifold("A", "B", 0, 1)>>,
     points |-> <<PointHeadOn>>,
     islands |-> [nbContactManifolds |-> <<1>>, contactManifoldsIndices |-> <<0>>]]
MotionHeadOn == [v |-> V3(1, 0, 0), w |-> V3(0, 0, 0)]
MaterialElastic == [bounciness |-> One, frictionCoefficient |-> D(1, 4), rollingResistance |-> Zero]

\* layout, motion of A and material of A of the worlds
Scenes ==
    {u \in Layouts \X MotionsA \X MaterialsA : AxisAligned(u[1], u[2], u[3])}
        \cup {<<LayoutHeadOn, MotionHeadOn, MaterialElastic>>}

\* The same world with B a static body: no inverse mass, no inverse inertia, at rest.
withStaticB(w) ==
    [w EXCEPT !.bodyType["B"] = "STATIC",
              !.worldInertiaTensorInverse["B"] = MZero,
              !.mInverseMasses[bodyIndexOf["B"]] = Zero,
              !.mLinearVelocities[bodyIndexOf["B"]] = VZero,
              !.mConstrainedLinearVelocities[bodyIndexOf["B"]] = VZero]
\* the scenes that are also taken with B static: B on G, A without spin
ScenesWithStaticB ==
    {u \in Scenes : /\ \E k \in DOMAIN u[1].manifolds : u[1].manifolds[k].bodyEntity1 = "B"
                    /\ u[1].islands.nbContactManifolds = <<1, 1>>
                    /\ u[2].w = VZero}
\* the worlds a step can start from, each with a solver as constructed
Worlds ==
    UNION {{World(u[1], u[2], u[3], factors, split) :
               factors \in FactorsA, split \in BOOLEAN} : u \in Scenes}
        \cup
    UNION {{withStaticB(World(u[1], u[2], u[3], factors, split)) :
               factors \in FactorsA, split \in BOOLEAN} : u \in ScenesWithStaticB}

\* The same world with other penetration depths and other split velocities at
\* the start of the step.
otherDepthsAndSplitVelocities(w) ==
    [w EXCEPT
        !.mAllContactPoints =
            [k \in DOMAIN @ |-> [@[k] EXCEPT !.penetrationDepth = Add(@, D(k, 4))]],
        !.mSplitLinearVelocities =
            [b \in DOMAIN @ |-> IF w.mInverseMasses[b] = Zero THEN @[b]
                                ELSE <<Zero, D(b, 4), Zero>>],
        !.mSplitAngularVelocities =
            [b \in DOMAIN @ |-> IF w.mInverseMasses[b] = Zero THEN @[b]
                                ELSE <<Zero, Zero, D(b, 2)>>]]

\* The same world with the two bodies of every manifold exchanged: body 1 and
\* collider 1 are what body 2 and collider 2 were, the local points change places
\* and every normal is negated.
swapBodies(w) ==
    [w EXCEPT
        !.mAllContactManifolds =
            [k \in DOMAIN @ |->
                [@[k] EXCEPT !.bodyEntity1 = w.mAllContactManifolds[k].bodyEntity2,
                             !.bodyEntity2 = w.mAllContactManifolds[k].bodyEntity1,
                             !.colliderEntity1 = w.mAllContactManifolds[k].colliderEntity2,
                             !.colliderEntity2 = w.mAllContactManifolds[k].colliderEntity1]],
        !.mAllContactPoints =
            [k \in DOMAIN @ |->
                [@[k] EXCEPT !.localPointOnShape1 = w.mAllContactPoints[k].localPointOnShape2,
                             !.localPointOnShape2 = w.mAllContactPoints[k].localPointOnShape1,
                             !.normal = VNeg(w.mAllContactPoints[k].normal)]]]

(***************************************************************************)
(* The updates of solve() as a list, for a caller that solves the islands  *)
(* side by side.  An update is <<phase, c, cp>>: manifold record c (from   *)
(* 1), point record cp (from 1, 0 when the update is of the manifold);     *)
(* "head" is the head of the manifold loop, where the local                *)
(* sumPenetrationImpulse starts at 0 (line 509).                           *)
(***************************************************************************)
RECURSIVE pointUpdatesOf(_, _, _, _)
pointUpdatesOf(s, mf, cp, last) ==
    IF cp > last THEN <<>>
    ELSE (IF s.mIsSplitImpulseActive
          THEN <<<<"penetration", mf, cp>>, <<"split", mf, cp>>>>
          ELSE <<<<"penetration", mf, cp>>>>) \o pointUpdatesOf(s, mf, cp + 1, last)
\* the updates of manifold record mf whose first point record is first (lines 506-792)
updatesOfRecord(s, mf, first) ==
    <<<<"head", mf, 0>>>>
        \o pointUpdatesOf(s, mf, first, first + s.mContactConstraints[mf].nbContacts - 1)
        \o <<<<"friction1", mf, 0>>, <<"friction2", mf, 0>>, <<"twist", mf, 0>>,
             <<"rolling", mf, 0>>>>
RECURSIVE updatesOfRecords(_, _, _, _)
updatesOfRecords(s, mf, last, first) ==
    IF mf > last THEN <<>>
    ELSE updatesOfRecord(s, mf, first)
             \o updatesOfRecords(s, mf + 1, last, first + s.mContactConstraints[mf].nbContacts)
applyUpdate(s, u) ==
    CASE u[1] = "head" -> manifoldLoopHead(s)
      [] u[1] = "penetration" -> solvePenetration(s, u[2], u[3])
      [] u[1] = "split" -> solveSplit(s, u[2], u[3])
      [] u[1] = "friction1" -> solveFriction1(s, u[2])
      [] u[1] = "friction2" -> solveFriction2(s, u[2])
      [] u[1] = "twist" -> solveTwist(s, u[2])
      [] u[1] = "rolling" -> solveRolling(s, u[2])
RECURSIVE applyUpdates(_, _, _)
applyUpdates(s, updates, k) ==
    IF k > Len(updates) THEN s ELSE applyUpdates(applyUpdate(s, updates[k]), updates, k + 1)
\* one call of solve(): all manifold records in order
solve(s) == applyUpdates(s, updatesOfRecords(s, 1, s.mNbContactManifolds, 1), 1)

\* the manifold records of island k (from 1) are those that init built for it, after
\* the records of the islands before it (lines 92-98)
RECURSIVE nbRecordsBefore(_, _)
nbRecordsBefore(s, k) ==
    IF k <= 1 THEN 0 ELSE nbRecordsBefore(s, k - 1) + s.islands.nbContactManifolds[k - 1]
RECURSIVE nbPointRecordsBefore(_, _)
nbPointRecordsBefore(s, mf) ==
    IF mf <= 1 THEN 0
    ELSE nbPointRecordsBefore(s, mf - 1) + s.mContactConstraints[mf - 1].nbContacts
updatesOfIsland(s, k) ==
    updatesOfRecords(s, nbRecordsBefore(s, k) + 1,
                     nbRecordsBefore(s, k) + s.islands.nbContactManifolds[k],
                     nbPointRecordsBefore(s, nbRecordsBefore(s, k) + 1) + 1)
\* faulty variant of islandUpdate: the sum is one variable shared by the islands
islandUpdateSharedSum(s, sumPenetrationImpulse, u) == applyUpdate(s, u)

\* the update u of an island whose manifold loop holds sumPenetrationImpulse
islandUpdate(s, sumPenetrationImpulse, u) ==
    applyUpdate([s EXCEPT !.sumPenetrationImpulse = sumPenetrationImpulse], u)

(***************************************************************************)
(* State                                                                   *)
(*   st     the solver, the body store and the external lists              *)
(*   alt    a second run of the same calls, on the world of st with other  *)
(*          penetration depths and other initial split velocities          *)
(*   swp    a third run of the same calls, on the world of st with the two *)
(*          bodies of every manifold exchanged                             *)
(*   pc     where the caller or the running call is                        *)
(*   c, i   inside solve: the manifold record and its contact point (from  *)
(*          1), contactPointIndex the point record (from 1)                *)
(*   iter   solve() calls finished in this step                            *)
(*   step   the physics step (from 1)                                      *)
(*   sweep  the constraint updates of the running or last solve() call, in *)
(*          the order they were made                                       *)
(*   par    when the islands are solved side by side: for each of the two  *)
(*          islands the number of its updates made in this sweep, and the  *)
(*          sumPenetrationImpulse local of its manifold loop               *)
(***************************************************************************)
VARIABLES st, alt, swp, pc, c, i, contactPointIndex, iter, step, sweep, par

vars == <<st, alt, swp, pc, c, i, contactPointIndex, iter, step, sweep, par>>

sweepStart == [pos |-> <<0, 0>>, sum |-> <<Zero, Zero>>]

Init ==
    /\ st \in Worlds
    /\ alt = otherDepthsAndSplitVelocities(st)
    /\ swp = swapBodies(st)
    /\ sweep = <<>>
    /\ par = sweepStart
    /\ pc = "idle"
    /\ c = 0
    /\ i = 0
    /\ contactPointIndex = 0
    /\ iter = 0
    /\ step = 1

\* init() up to its call of warmStart, or all of it when it returns early
DoInit ==
    /\ pc = "idle"
    /\ st' = init(st, st.timeStep)
    /\ alt' = init(alt, alt.timeStep)
    /\ swp' = init(swp, swp.timeStep)
    /\ pc' = IF initReturnsEarly(st) THEN "ready" ELSE "warmStart"
    /\ iter' = 0
    /\ UNCHANGED <<c, i, contactPointIndex, step, sweep>>
    /\ UNCHANGED par

\* the call of warmStart that ends init()
DoWarmStart ==
    /\ pc = "warmStart"
    /\ st' = warmStart(st)
    /\ alt' = warmStart(alt)
    /\ swp' = warmStart(swp)
    /\ pc' = "ready"
    /\ UNCHANGED <<c, i, contactPointIndex, iter, step, sweep>>
    /\ UNCHANGED par

\* faulty variant of phaseAfter: the twist constraint is solved before the second
\* friction constraint
phaseAfterTwistFirst(phase, point, nbContacts, splitActive) ==
    CASE phase = "penetration" ->
             IF splitActive THEN "split"
             ELSE IF point < nbContacts THEN "penetration" ELSE "friction1"
      [] phase = "split" -> IF point < nbContacts THEN "penetration" ELSE "friction1"
      [] phase = "friction1" -> "twist"
      [] phase = "twist" -> "friction2"
      [] phase = "friction2" -> "rolling"

\* the position in solve() after the update `phase` of point i of a manifold
phaseAfter(phase, point, nbContacts, splitActive) ==
    CASE phase = "penetration" ->
             IF splitActive THEN "split"
             ELSE IF point < nbContacts THEN "penetration" ELSE "friction1"
      [] phase = "split" -> IF point < nbContacts THEN "penetration" ELSE "friction1"
      [] phase = "friction1" -> "friction2"
      [] phase = "friction2" -> "twist"
      [] phase = "twist" -> "rolling"

\* solve() is called: lines 500-509
SolveEnter ==
    /\ pc = "ready"
    /\ iter < MaxIter
    /\ IF st.mNbContactManifolds = 0
       THEN /\ pc' = "ready"
            /\ iter' = iter + 1
            /\ UNCHANGED <<st, alt, swp, c, i, contactPointIndex>>
       ELSE /\ pc' = "penetration"
            /\ st' = manifoldLoopHead(st)
            /\ alt' = manifoldLoopHead(alt)
            /\ swp' = manifoldLoopHead(swp)
            /\ c' = 1
            /\ i' = 1
            /\ contactPointIndex' = 1
            /\ iter' = iter
    /\ sweep' = <<>>
    /\ UNCHANGED step
    /\ UNCHANGED par

\* the move to the next point (line 646) or to the friction constraints
AfterPointUpdate ==
    /\ pc' = phaseAfter(pc, i, st.mContactConstraints[c].nbContacts,
                        st.mIsSplitImpulseActive)
    /\ IF pc' = "split"
       THEN UNCHANGED <<i, contactPointIndex>>
       ELSE i' = i + 1 /\ contactPointIndex' = contactPointIndex + 1
    /\ sweep' = Append(sweep, <<pc, c, i>>)
    /\ UNCHANGED <<c, iter, step>>

SolvePenetration ==
    /\ pc = "penetration"
    /\ st' = solvePenetration(st, c, contactPointIndex)
    /\ alt' = solvePenetration(alt, c, contactPointIndex)
    /\ swp' = solvePenetration(swp, c, contactPointIndex)
    /\ AfterPointUpdate
    /\ UNCHANGED par

SolveSplit ==
    /\ pc = "split"
    /\ st' = solveSplit(st, c, contactPointIndex)
    /\ alt' = solveSplit(alt, c, contactPointIndex)
    /\ swp' = solveSplit(swp, c, contactPointIndex)
    /\ AfterPointUpdate
    /\ UNCHANGED par

SolveFriction1 ==
    /\ pc = "friction1"
    /\ st' = solveFriction1(st, c)
    /\ alt' = solveFriction1(alt, c)
    /\ swp' = solveFriction1(swp, c)
    /\ pc' = phaseAfter(pc, i, st.mContactConstraints[c].nbContacts,
                        st.mIsSplitImpulseActive)
    /\ sweep' = Append(sweep, <<pc, c, 0>>)
    /\ UNCHANGED <<c, i, contactPointIndex, iter, step>>
    /\ UNCHANGED par

SolveFriction2 ==
    /\ pc = "friction2"
    /\ st' = solveFriction2(st, c)
    /\ alt' = solveFriction2(alt, c)
    /\ swp' = solveFriction2(swp, c)
    /\ pc' = phaseAfter(pc, i, st.mContactConstraints[c].nbContacts,
                        st.mIsSplitImpulseActive)
    /\ sweep' = Append(sweep, <<pc, c, 0>>)
    /\ UNCHANGED <<c, i, contactPointIndex, iter, step>>
    /\ UNCHANGED par

SolveTwist ==
    /\ pc = "twist"
    /\ st' = solveTwist(st, c)
    /\ alt' = solveTwist(alt, c)
    /\ swp' = solveTwist(swp, c)
    /\ pc' = phaseAfter(pc, i, st.mContactConstraints[c].nbContacts,
                        st.mIsSplitImpulseActive)
    /\ sweep' = Append(sweep, <<pc, c, 0>>)
    /\ UNCHANGED <<c, i, contactPointIndex, iter, step>>
    /\ UNCHANGED par

\* the last update of a manifold: on to the next manifold, or solve() returns
SolveRolling ==
    /\ pc = "rolling"
    /\ IF c < st.mNbContactManifolds
       THEN /\ st' = manifoldLoopHead(solveRolling(st, c))
            /\ alt' = manifoldLoopHead(solveRolling(alt, c))
            /\ swp' = manifoldLoopHead(solveRolling(swp, c))
            /\ pc' = "penetration"
            /\ c' = c + 1
            /\ i' = 1
            /\ UNCHANGED <<contactPointIndex, iter>>
       ELSE /\ st' = solveRolling(st, c)
            /\ alt' = solveRolling(alt, c)
            /\ swp' = solveRolling(swp, c)
            /\ pc' = "ready"
            /\ c' = 0
            /\ i' = 0
            /\ contactPointIndex' = 0
            /\ iter' = iter + 1
    /\ sweep' = Append(sweep, <<pc, c, 0>>)
    /\ UNCHANGED step
    /\ UNCHANGED par

\* storeImpulses(), after the last solve() of the step
StoreImpulses ==
    /\ pc = "ready"
    /\ iter = MaxIter
    /\ st' = storeImpulses(st)
    /\ alt' = storeImpulses(alt)
    /\ swp' = storeImpulses(swp)
    /\ pc' = "stored"
    /\ UNCHANGED <<c, i, contactPointIndex, iter, step, sweep>>
    /\ UNCHANGED par

Reset ==
    /\ pc = "stored"
    /\ st' = reset(st)
    /\ alt' = reset(alt)
    /\ swp' = reset(swp)
    /\ pc' = "released"
    /\ UNCHANGED <<c, i, contactPointIndex, iter, step, sweep>>
    /\ UNCHANGED par

\* the engine moves on to the next step
NewFrame ==
    /\ pc = "released"
    /\ step < MaxSteps
    /\ \E persistence \in Persistence :
           /\ st' = newFrame(st, persistence)
           /\ alt' = newFrame(alt, persistence)
           /\ swp' = newFrame(swp, persistence)
    /\ pc' = "idle"
    /\ step' = step + 1
    /\ UNCHANGED <<c, i, contactPointIndex, iter, sweep>>
    /\ UNCHANGED par

Next ==
    \/ DoInit
    \/ DoWarmStart
    \/ SolveEnter
    \/ SolvePenetration
    \/ SolveSplit
    \/ SolveFriction1
    \/ SolveFriction2
    \/ SolveTwist
    \/ SolveRolling
    \/ StoreImpulses
    \/ Reset
    \/ NewFrame

Spec == Init /\ [][Next]_vars

(***************************************************************************)
(* The islands solved side by side: a caller that runs the manifold loop   *)
(* of each of two islands on its own, the updates of the two loops in any  *)
(* order.  st is the world so solved, alt the same world after one call of *)
(* solve() from the start of the sweep; c, i, contactPointIndex and step   *)
(* are not used, sweep holds the islands in the order they took turns      *)
(* (the first three turns).                                                *)
(***************************************************************************)
\* the worlds with two islands, each with manifolds, after init
TwoIslands ==
    {initAndWarmStart(w, w.timeStep) :
        w \in {x \in Worlds : /\ Len(x.islands.nbContactManifolds) = 2
                              /\ \A k \in 1 .. 2 : x.islands.nbContactManifolds[k] > 0}}

InitIslands ==
    /\ st \in TwoIslands
    /\ alt = solve(st)
    /\ swp = st
    /\ pc = "islands"
    /\ c = 0
    /\ i = 0
    /\ contactPointIndex = 0
    /\ iter = 0
    /\ step = 1
    /\ sweep = <<>>
    /\ par = sweepStart

turnOf(turns, k) ==
    IF turns # <<>> /\ turns[Len(turns)] = k THEN turns
    ELSE IF Len(turns) >= 3 THEN turns ELSE Append(turns, k)

IslandUpdate(k) ==
    /\ pc = "islands"
    /\ par.pos[k] < Len(updatesOfIsland(st, k))
    /\ st' = islandUpdate(st, par.sum[k], updatesOfIsland(st, k)[par.pos[k] + 1])
    /\ par' = [par EXCEPT !.pos[k] = @ + 1, !.sum[k] = st'.sumPenetrationImpulse]
    /\ sweep' = turnOf(sweep, k)
    /\ UNCHANGED <<alt, swp, pc, c, i, contactPointIndex, iter, step>>

Island1Update == IslandUpdate(1)
Island2Update == IslandUpdate(2)

islandsDone == \A k \in 1 .. 2 : par.pos[k] = Len(updatesOfIsland(st, k))

\* both loops have ended: the sweep is over, the caller starts the next one
NextSweep ==
    /\ pc = "islands"
    /\ islandsDone
    /\ iter + 1 < MaxIter
    /\ iter' = iter + 1
    /\ alt' = solve(st)
    /\ par' = sweepStart
    /\ sweep' = <<>>
    /\ UNCHANGED <<st, swp, pc, c, i, contactPointIndex, step>>

NextIslands ==
    \/ Island1Update
    \/ Island2Update
    \/ NextSweep

SpecIslands == InitIslands /\ [][NextIslands]_vars


(***************************************************************************)
(* Vocabulary of the properties                                            *)
(***************************************************************************)
\* the records exist: init has built them and reset has not released them
Built == pc \notin {"idle", "released"}
\* a solve() call of this step has returned and no other is running
Solved == pc = "ready" /\ iter >= 1
\* inside solve()
SolvePhases == {"penetration", "split", "friction1", "friction2", "twist", "rolling"}

\* the first point record of manifold record c, and all its point records
RECURSIVE firstPointOf(_, _)
firstPointOf(s, mf) ==
    IF mf = 1 THEN 1 ELSE firstPointOf(s, mf - 1) + s.mContactConstraints[mf - 1].nbContacts
pointsOf(s, mf) ==
    firstPointOf(s, mf) .. (firstPointOf(s, mf) + s.mContactConstraints[mf].nbContacts - 1)
manifoldOf(s, cp) == CHOOSE mf \in 1 .. s.mNbContactManifolds : cp \in pointsOf(s, mf)

\* the sum of the penetration impulses of the point records cp .. last
RECURSIVE sumPenetrationImpulses(_, _, _)
sumPenetrationImpulses(s, cp, last) ==
    IF cp > last THEN Zero
    ELSE Add(s.mContactPoints[cp].penetrationImpulse,
             sumPenetrationImpulses(s, cp + 1, last))
\* S of manifold record c: the sum over its own points
sumOf(s, mf) ==
    sumPenetrationImpulses(s, firstPointOf(s, mf),
                           firstPointOf(s, mf) + s.mContactConstraints[mf].nbContacts - 1)

\* the velocity of body 2 relative to body 1 along the normal of point record cp
normalVelocityOf(s, cp) ==
    LET mc == s.mContactConstraints[manifoldOf(s, cp)]
        pt == s.mContactPoints[cp]
        b1 == mc.rigidBodyComponentIndexBody1
        b2 == mc.rigidBodyComponentIndexBody2
    IN  VDot(deltaVSolve(s.mConstrainedLinearVelocities[b1],
                         s.mConstrainedAngularVelocities[b1],
                         s.mConstrainedLinearVelocities[b2],
                         s.mConstrainedAngularVelocities[b2], pt.r1, pt.r2),
             pt.normal)

(***************************************************************************)
(* C1                                                                      *)
(***************************************************************************)
\* C1: from init on, through warm start and every solve() call of the step, every
\* contact point record holds a penetrationImpulse >= 0; the impulses that warm
\* start reads are those that the steps before have stored, starting from 0.
PenetrationImpulseNonNegative ==
    Built => \A cp \in 1 .. st.mNbContactPoints :
                 Le(Zero, st.mContactPoints[cp].penetrationImpulse)

\* In a later step, after the last solve(), a warm-started point pushes (impulse
\* > 0) while another point, whose bodies separate, was held at 0 by the projection.
PenetrationImpulseProjected ==
    /\ step > 1
    /\ Solved
    /\ iter = MaxIter
    /\ \E cp \in 1 .. st.mNbContactPoints :
           /\ st.mContactPoints[cp].isRestingContact
           /\ Gt(st.mContactPoints[cp].penetrationImpulse, Zero)
    /\ \E cp \in 1 .. st.mNbContactPoints :
           /\ st.mContactPoints[cp].penetrationImpulse = Zero
           /\ Lt(penetrationDeltaLambda(st, st.mContactPoints[cp],
                                        normalVelocityOf(st, cp)), Zero)

(***************************************************************************)
(* C2                                                                      *)
(***************************************************************************)
frictionWithin(s, mf) ==
    LET mc == s.mContactConstraints[mf]
        limit == Mul(mc.frictionCoefficient, sumOf(s, mf))
    IN  /\ Le(DAbs(mc.friction1Impulse), limit)
        /\ Le(DAbs(mc.friction2Impulse), limit)
        /\ Le(DAbs(mc.frictionTwistImpulse), limit)

\* C2: when a solve() call has returned, the two friction impulses and the twist
\* impulse of every manifold are, in absolute value, at most frictionCoefficient
\* times the sum of the penetration impulses that this call left on the points of
\* that manifold.
FrictionWithinCone ==
    Solved => \A mf \in 1 .. st.mNbContactManifolds : frictionWithin(st, mf)

\* After the last solve() of a step, on a manifold that is not the first of the
\* sweep, the first friction impulse sits on its limit, and the limit is not 0.
FrictionSaturated ==
    /\ Solved
    /\ iter = MaxIter
    /\ \E mf \in 2 .. st.mNbContactManifolds :
           /\ Gt(sumOf(st, mf), Zero)
           /\ DAbs(st.mContactConstraints[mf].friction1Impulse) =
                  Mul(st.mContactConstraints[mf].frictionCoefficient, sumOf(st, mf))

(***************************************************************************)
(* C3                                                                      *)
(***************************************************************************)
rollingWithin(s, mf) ==
    LET mc == s.mContactConstraints[mf]
        limit == Mul(mc.rollingResistanceFactor, sumOf(s, mf))
    IN  Gt(mc.rollingResistanceFactor, Zero) =>
            /\ Le(VLength(mc.rollingResistanceImpulse), limit)
            /\ \A k \in 1 .. 3 : Le(DAbs(mc.rollingResistanceImpulse[k]), limit)

bodyColumns(s) ==
    <<s.mLinearVelocities, s.mAngularVelocities, s.mCentersOfMassWorld,
      s.mInverseMasses, s.mLinearVelocitiesFactors, s.mAngularVelocitiesFactors>>

\* C4: no step of init, warm start, solve, storeImpulses or reset changes the
\* columns linearVelocities, angularVelocities, centersOfMassWorld, inverseMasses,
\* linearVelocitiesFactors and angularVelocitiesFactors of the body store.
BodyColumnsReadOnly ==
    [][pc # "released" => bodyColumns(st') = bodyColumns(st)]_vars

(***************************************************************************)
(* C5                                                                      *)
(***************************************************************************)
\* the momentum field: constrained velocities and accumulated impulses
momentumOf(s) ==
    <<s.mConstrainedLinearVelocities, s.mConstrainedAngularVelocities,
      [cp \in 1 .. s.mNbContactPoints |-> s.mContactPoints[cp].penetrationImpulse],
      [mf \in 1 .. s.mNbContactManifolds |->
          <<s.mContactConstraints[mf].friction1Impulse,
            s.mContactConstraints[mf].friction2Impulse,
            s.mContactConstraints[mf].frictionTwistImpulse,
            s.mContactConstraints[mf].rollingResistanceImpulse>>]>>

\* C5: with split impulse active, the run st and the run alt, which differ in the
\* penetration depths of the contact points and in the split velocities the step
\* starts with, and in nothing else, have the same constrained velocities and the
\* same penetration, friction, twist and rolling impulses after init and after
\* every update of every solve() call.
SplitImpulseLeavesMomentumAlone ==
    st.mIsSplitImpulseActive => momentumOf(st) = momentumOf(alt)

\* The last solve() has returned with split impulse active: the two runs hold
\* different split impulses and split velocities, and a point pushes.
SplitFieldsDiffer ==
    /\ st.mIsSplitImpulseActive
    /\ Solved
    /\ iter = MaxIter
    /\ st.mSplitLinearVelocities # alt.mSplitLinearVelocities
    /\ \E cp \in 1 .. st.mNbContactPoints :
           /\ st.mContactPoints[cp].penetrationSplitImpulse #
                  alt.mContactPoints[cp].penetrationSplitImpulse
           /\ st.mContactPoints[cp].penetrationDepth #
                  alt.mContactPoints[cp].penetrationDepth
           /\ Gt(st.mContactPoints[cp].penetrationImpulse, Zero)

(***************************************************************************)
(* C6                                                                      *)
(***************************************************************************)
\* the updates of the points i .. nbContacts of manifold record c
RECURSIVE pointUpdates(_, _, _, _)
pointUpdates(mf, pi, nbContacts, splitActive) ==
    IF pi > nbContacts THEN <<>>
    ELSE (IF splitActive THEN << <<"penetration", mf, pi>>, <<"split", mf, pi>> >>
          ELSE << <<"penetration", mf, pi>> >>)
         \o pointUpdates(mf, pi + 1, nbContacts, splitActive)
\* the updates of the manifold records c .. mNbContactManifolds
RECURSIVE sweepFrom(_, _)
sweepFrom(s, mf) ==
    IF mf > s.mNbContactManifolds THEN <<>>
    ELSE pointUpdates(mf, 1, s.mContactConstraints[mf].nbContacts, s.mIsSplitImpulseActive)
         \o << <<"friction1", mf, 0>>, <<"friction2", mf, 0>>, <<"twist", mf, 0>>,
               <<"rolling", mf, 0>> >>
         \o sweepFrom(s, mf + 1)
IsPrefix(a, b) == Len(a) <= Len(b) /\ SubSeq(b, 1, Len(a)) = a

\* C6: the updates that a solve() call has made so far are the first ones of this
\* list, in this order, and all of it when the call returns: for manifold 1, then
\* manifold 2, ...: the normal update of point 1 (then its split update if split
\* impulse is active), ..., of point n, then friction 1, friction 2, twist and
\* rolling resistance.
SweepInOrder ==
    Built =>
        /\ IsPrefix(sweep, sweepFrom(st, 1))
        /\ Solved => sweep = sweepFrom(st, 1)

\* A solve() call with split impulse active has returned from a sweep over two
\* manifolds, the first with two points.
SweepOfTwoManifolds ==
    /\ Solved
    /\ st.mIsSplitImpulseActive
    /\ st.mNbContactManifolds = 2
    /\ st.mContactConstraints[1].nbContacts = 2
    /\ Len(sweep) = 14

(***************************************************************************)
(* C7                                                                      *)
(***************************************************************************)
\* the external manifolds (from 0) as the island table lists them: island after
\* island, and each island's range upwards
RECURSIVE range(_, _)
range(from, count) == IF count <= 0 THEN <<>> ELSE <<from>> \o range(from + 1, count - 1)
RECURSIVE islandOrderFrom(_, _)
islandOrderFrom(islands, k) ==
    IF k > Len(islands.nbContactManifolds) THEN <<>>
    ELSE range(islands.contactManifoldsIndices[k], islands.nbContactManifolds[k])
         \o islandOrderFrom(islands, k + 1)
\* the external points (from 0) of the manifolds of `order` from position k on
RECURSIVE pointOrderFrom(_, _, _)
pointOrderFrom(s, order, k) ==
    IF k > Len(order) THEN <<>>
    ELSE range(s.mAllContactManifolds[order[k] + 1].contactPointsIndex,
               s.mAllContactManifolds[order[k] + 1].nbContactPoints)
         \o pointOrderFrom(s, order, k + 1)
externalManifoldsOf(s) ==
    [k \in 1 .. s.mNbContactManifolds |-> s.mContactConstraints[k].externalContactManifold]
externalPointsOf(s) ==
    [k \in 1 .. s.mNbContactPoints |-> s.mContactPoints[k].externalContact]
Increasing(q) == \A j, k \in 1 .. Len(q) : j < k => q[j] < q[k]

\* C7 as stated: the records follow the external manifold array, and the point
\* records the external point array, in increasing index, whatever the island
\* table.
RecordsInArrayOrder ==
    Built => Increasing(externalManifoldsOf(st)) /\ Increasing(externalPointsOf(st))

\* C7, amended: the records follow the island table: record k is for the k-th
\* manifold met when the islands are taken in the order of the table and each
\* island's range of the manifold array upwards, and the point records follow the
\* manifolds' ranges of the point array in that same order; solve() sweeps the
\* records from the first to the last.
RecordsInIslandOrder ==
    Built =>
        /\ externalManifoldsOf(st) = islandOrderFrom(st.islands, 1)
        /\ externalPointsOf(st) = pointOrderFrom(st, islandOrderFrom(st.islands, 1), 1)
        /\ \A j, k \in 1 .. Len(sweep) : j < k => sweep[j][2] <= sweep[k][2]

\* solve() has swept the records of an island table that lists a later range of the
\* manifold array first: record 1 is for external manifold 1, record 2 for 0.
IslandsAgainstArrayOrder ==
    /\ Solved
    /\ st.islands.contactManifoldsIndices = <<1, 0>>
    /\ externalManifoldsOf(st) = <<1, 0>>
    /\ externalPointsOf(st) = <<2, 0, 1>>

(***************************************************************************)
(* C8                                                                      *)
(***************************************************************************)
\* C8: when init has built the records and warm start has not run yet, every
\* manifold record holds the friction, twist and rolling resistance impulses and
\* the friction vectors stored on its external manifold.
RecordsSeededFromExternal ==
    pc = "warmStart" =>
        \A mf \in 1 .. st.mNbContactManifolds :
            LET mc == st.mContactConstraints[mf]
                e == st.mAllContactManifolds[mc.externalContactManifold + 1]
            IN  /\ mc.friction1Impulse = e.frictionImpulse1
                /\ mc.friction2Impulse = e.frictionImpulse2
                /\ mc.frictionTwistImpulse = e.frictionTwistImpulse
                /\ mc.rollingResistanceImpulse = e.rollingResistanceImpulse
                /\ mc.oldFrictionVector1 = e.frictionVector1
                /\ mc.oldFrictionVector2 = e.frictionVector2

(***************************************************************************)
(* C9                                                                      *)
(***************************************************************************)
builtManifolds(s) == {s.mContactConstraints[mf].externalContactManifold :
                         mf \in 1 .. s.mNbContactManifolds}
builtPoints(s) == {s.mContactPoints[cp].externalContact : cp \in 1 .. s.mNbContactPoints}

storedBack(s) ==
    /\ \A mf \in 1 .. s.mNbContactManifolds :
           LET mc == s.mContactConstraints[mf]
               e == s.mAllContactManifolds[mc.externalContactManifold + 1]
           IN  /\ e.frictionImpulse1 = mc.friction1Impulse
               /\ e.frictionImpulse2 = mc.friction2Impulse
               /\ e.frictionTwistImpulse = mc.frictionTwistImpulse
               /\ e.rollingResistanceImpulse = mc.rollingResistanceImpulse
               /\ e.frictionVector1 = mc.frictionVector1
               /\ e.frictionVector2 = mc.frictionVector2
    /\ \A cp \in 1 .. s.mNbContactPoints :
           s.mAllContactPoints[s.mContactPoints[cp].externalContact + 1].penetrationImpulse =
               s.mContactPoints[cp].penetrationImpulse

\* C9: a storeImpulses() step leaves every external manifold that has a record
\* with the record's friction, twist and rolling resistance impulses and friction
\* vectors, every external point that has a record with the record's
\* penetrationImpulse, the records as they were, and the external manifolds and
\* points without a record as they were.
StoreWritesRecordsBack ==
    [][(pc = "ready" /\ pc' = "stored") =>
          /\ storedBack(st')
          /\ st'.mContactConstraints = st.mContactConstraints
          /\ st'.mContactPoints = st.mContactPoints
          /\ \A m \in 1 .. Len(st.mAllContactManifolds) :
                 (m - 1) \notin builtManifolds(st) =>
                     st'.mAllContactManifolds[m] = st.mAllContactManifolds[m]
          /\ \A k \in 1 .. Len(st.mAllContactPoints) :
                 (k - 1) \notin builtPoints(st) =>
                     st'.mAllContactPoints[k] = st.mAllContactPoints[k]]_vars

\* storeImpulses() has run on lists with a manifold and a point outside every
\* island, with record impulses that are not 0.
StoredWithManifoldOutsideIslands ==
    /\ pc = "stored"
    /\ \E m \in 1 .. Len(st.mAllContactManifolds) : (m - 1) \notin builtManifolds(st)
    /\ \E k \in 1 .. Len(st.mAllContactPoints) : (k - 1) \notin builtPoints(st)
    /\ \E mf \in 1 .. st.mNbContactManifolds :
           /\ st.mContactConstraints[mf].friction1Impulse # Zero
           /\ \E cp \in pointsOf(st, mf) : st.mContactPoints[cp].penetrationImpulse # Zero

(***************************************************************************)
(* C10                                                                     *)
(***************************************************************************)
\* e * dvN if dvN < -threshold, else 0, with dv = v2 + w2 x r2 - v1 - w1 x r1
restitutionBiasExpected(s, cp) ==
    LET mc == s.mContactConstraints[manifoldOf(s, cp)]
        pt == s.mContactPoints[cp]
        e == s.mAllContactManifolds[mc.externalContactManifold + 1]
        b1 == mc.rigidBodyComponentIndexBody1
        b2 == mc.rigidBodyComponentIndexBody2
        dv == VSub(VSub(VAdd(s.mLinearVelocities[b2],
                             VCross(s.mAngularVelocities[b2], pt.r2)),
                        s.mLinearVelocities[b1]),
                   VCross(s.mAngularVelocities[b1], pt.r1))
        dvN == VDot(dv, pt.normal)
        restitution == Max(s.material[e.colliderEntity1].bounciness,
                           s.material[e.colliderEntity2].bounciness)
    IN  IF Lt(dvN, Neg(s.mRestitutionVelocityThreshold)) THEN Mul(restitution, dvN)
        ELSE Zero

\* C10: the restitution bias that init gives a contact point is e * dvN if
\* dvN < -restitutionVelocityThreshold and 0 otherwise, where dvN = dv . n and
\* dv = v2 + w2 x r2 - v1 - w1 x r1 for the velocities the step starts with.
RestitutionBiasFromRelativeVelocity ==
    pc = "warmStart" =>
        \A cp \in 1 .. st.mNbContactPoints :
            st.mContactPoints[cp].restitutionBias = restitutionBiasExpected(st, cp)

(***************************************************************************)
(* C11                                                                     *)
(***************************************************************************)
\* the velocity difference at the friction point of manifold record mf,
\* v2 + w2 x r2Friction - v1 - w1 x r1Friction, for the velocities of state s
centroidVelocityOf(s, mf) ==
    LET mc == s.mContactConstraints[mf]
        b1 == mc.rigidBodyComponentIndexBody1
        b2 == mc.rigidBodyComponentIndexBody2
    IN  VSub(VSub(VAdd(s.mLinearVelocities[b2],
                       VCross(s.mAngularVelocities[b2], mc.r2Friction)),
                  s.mLinearVelocities[b1]),
             VCross(s.mAngularVelocities[b1], mc.r1Friction))
\* its part in the tangent plane of the manifold
centroidTangentOf(s, mf) ==
    LET n == s.mContactConstraints[mf].normal
        dv == centroidVelocityOf(s, mf)
    IN  VSub(dv, VScale(VDot(dv, n), n))
frictionVector1AsSpecified(t, len, n, frictionVector1) ==
    IF Gt(len, Zero)
    THEN frictionVector1 = <<Div(t[1], len), Div(t[2], len), Div(t[3], len)>>
    ELSE VDot(frictionVector1, n) = Zero /\ VLength(frictionVector1) = One

\* C11: when init has built the records, every manifold whose relative velocity
\* at the friction point, dv_c = v2 + w2 x r2Friction - v1 - w1 x r1Friction, has
\* a tangential part t = dv_c - (dv_c . n) n that is not zero has frictionVector1
\* = t / |t|; otherwise frictionVector1 is a unit vector orthogonal to n.
FrictionVector1AlongTangent ==
    pc = "warmStart" =>
        \A mf \in 1 .. st.mNbContactManifolds :
            frictionVector1AsSpecified(centroidTangentOf(st, mf),
                                       VLength(centroidTangentOf(st, mf)),
                                       st.mContactConstraints[mf].normal,
                                       st.mContactConstraints[mf].frictionVector1)

(***************************************************************************)
(* C12                                                                     *)
(***************************************************************************)
\* the tangential velocity that init handed to the choice of frictionVector1 for
\* manifold record mf
tangentVelocityOfRecord(s, mf) ==
    LET mc == s.mContactConstraints[mf]
        b1 == mc.rigidBodyComponentIndexBody1
        b2 == mc.rigidBodyComponentIndexBody2
        deltaV == deltaVInit(s.mLinearVelocities[b1], s.mAngularVelocities[b1],
                             s.mLinearVelocities[b2], s.mAngularVelocities[b2],
                             mc.r1Friction, mc.r2Friction)
    IN  tangentVelocityOf(deltaV, VScale(VDot(deltaV, mc.normal), mc.normal))
rightHandedBasis(t1, t2, n) ==
    /\ VLength(t1) = One
    /\ VLength(t2) = One
    /\ VDot(t1, n) = Zero
    /\ VDot(t2, n) = Zero
    /\ VDot(t1, t2) = Zero
    /\ VCross(t1, t2) = n

\* v has at most one component that is not 0: with the normals of the worlds (along
\* an axis each) the decimal arithmetic of the friction vectors is then exact
alongOneAxis(v) == Cardinality({k \in 1 .. 3 : v[k] # Zero}) <= 1
frictionBasesOf(s) ==
    [mf \in 1 .. s.mNbContactManifolds |->
        <<s.mContactConstraints[mf].frictionVector1,
          s.mContactConstraints[mf].frictionVector2,
          s.mContactConstraints[mf].normal>>]

\* C12: init leaves in every manifold record (its normal is a unit vector, the
\* tangential velocity at its friction point is along one axis or 0)
\* frictionVector1, frictionVector2 and normal as unit vectors orthogonal to each
\* other with frictionVector1 x frictionVector2 = normal, and no later operation of
\* the step changes the three vectors.
FrictionBasisRightHanded ==
    [][/\ pc' = "warmStart" =>
              \A mf \in 1 .. st'.mNbContactManifolds :
                  alongOneAxis(tangentVelocityOfRecord(st', mf)) =>
                      rightHandedBasis(st'.mContactConstraints[mf].frictionVector1,
                                       st'.mContactConstraints[mf].frictionVector2,
                                       st'.mContactConstraints[mf].normal)
       /\ pc # "idle" => frictionBasesOf(st') = frictionBasesOf(st)]_vars

\* init has built two manifolds: one with a tangential velocity along an axis at
\* its friction point, one without (frictionVector1 chosen as any vector
\* orthogonal to normal)
FrictionBasisOfBothBranches ==
    /\ pc = "warmStart"
    /\ \E mf \in 1 .. st.mNbContactManifolds :
           /\ GtEpsilon(VLength(tangentVelocityOfRecord(st, mf)))
           /\ alongOneAxis(tangentVelocityOfRecord(st, mf))
    /\ \E mf \in 1 .. st.mNbContactManifolds :
           ~GtEpsilon(VLength(tangentVelocityOfRecord(st, mf)))

(***************************************************************************)
(* C13                                                                     *)
(***************************************************************************)
\* b_pos = -(beta / dt) * (depth - slop) if depth > slop, else 0
positionBiasAsSpecified(s, pt) ==
    IF Gt(pt.penetrationDepth, SLOP)
    THEN Neg(Mul(Div(IF s.mIsSplitImpulseActive THEN BETA_SPLIT_IMPULSE ELSE BETA,
                     s.mTimeStep),
                 Sub(pt.penetrationDepth, SLOP)))
    ELSE Zero
\* -(Jv + restitutionBias) / K_n with split impulse, -(Jv + b_pos +
\* restitutionBias) / K_n without; 1 / K_n is the record's inversePenetrationMass
correctionAsSpecified(s, cp) ==
    LET pt == s.mContactPoints[cp]
        Jv == normalVelocityOf(s, cp)
    IN  IF s.mIsSplitImpulseActive
        THEN Mul(Neg(Add(Jv, pt.restitutionBias)), pt.inversePenetrationMass)
        ELSE Mul(Neg(Add(Add(Jv, positionBiasAsSpecified(s, pt)), pt.restitutionBias)),
                 pt.inversePenetrationMass)
\* the update that a solve() call made last
lastUpdate == IF sweep = <<>> THEN <<"none", 0, 0>> ELSE sweep[Len(sweep)]

\* C13: the normal update of a point adds to its penetrationImpulse, before the
\* projection on >= 0, the correction -(Jv + restitutionBias) / K_n when split
\* impulse is active and -(Jv + b_pos + restitutionBias) / K_n when it is not,
\* with b_pos = -(beta / dt) * (depth - slop) if depth > slop and 0 otherwise; b_pos
\* is never positive.
PenetrationCorrectionAsSpecified ==
    [][pc = "penetration" =>
          /\ st'.mContactPoints[contactPointIndex].penetrationImpulse =
                 Max(Add(st.mContactPoints[contactPointIndex].penetrationImpulse,
                         correctionAsSpecified(st, contactPointIndex)), Zero)
          /\ Le(positionBiasAsSpecified(st, st.mContactPoints[contactPointIndex]), Zero)
          /\ st.mContactPoints[contactPointIndex].penetrationDepth = SLOP =>
                 positionBiasAsSpecified(st, st.mContactPoints[contactPointIndex]) = Zero]_vars

\* Without split impulse, a point deeper than slop with a restitution bias has had
\* its normal update and pushes; the manifold has a point whose depth is slop.
PenetrationCorrectedWithBothBiases ==
    /\ ~st.mIsSplitImpulseActive
    /\ lastUpdate[1] = "penetration"
    /\ LET cp == firstPointOf(st, lastUpdate[2]) + lastUpdate[3] - 1
       IN  /\ Gt(st.mContactPoints[cp].penetrationDepth, SLOP)
           /\ st.mContactPoints[cp].restitutionBias # Zero
           /\ Gt(st.mContactPoints[cp].penetrationImpulse, Zero)
    /\ \E cp \in pointsOf(st, lastUpdate[2]) : st.mContactPoints[cp].penetrationDepth = SLOP

(***************************************************************************)
(* C14                                                                     *)
(***************************************************************************)
\* the bodies of the manifold records
bodiesOfRecords(s) ==
    {s.mContactConstraints[mf].rigidBodyComponentIndexBody1 : mf \in 1 .. s.mNbContactManifolds}
        \cup
    {s.mContactConstraints[mf].rigidBodyComponentIndexBody2 : mf \in 1 .. s.mNbContactManifolds}
gated(s, b) ==
    \A k \in 1 .. 3 :
        /\ s.mLinearVelocitiesFactors[b][k] = Zero =>
               s.mConstrainedLinearVelocities[b][k] = Zero
        /\ s.mAngularVelocitiesFactors[b][k] = Zero =>
               s.mConstrainedAngularVelocities[b][k] = Zero

\* C14: when a solve() call has returned, every body of a manifold record has a
\* constrained linear (angular) velocity of 0 on every axis on which its linear
\* (angular) velocity factor is 0.
LockedAxesGated ==
    Solved => \A b \in bodiesOfRecords(st) : gated(st, b)

(***************************************************************************)
(* C15                                                                     *)
(***************************************************************************)
\* no point of manifold record mf was resting
newManifoldRecord(s, mf) ==
    \A cp \in pointsOf(s, mf) : ~s.mContactPoints[cp].isRestingContact
recordsOfBody(s, b) ==
    {mf \in 1 .. s.mNbContactManifolds :
        b \in {s.mContactConstraints[mf].rigidBodyComponentIndexBody1,
               s.mContactConstraints[mf].rigidBodyComponentIndexBody2}}
constrainedVelocitiesOf(s) ==
    <<s.mConstrainedLinearVelocities, s.mConstrainedAngularVelocities>>
accumulatorsCleared(mc) ==
    /\ mc.friction1Impulse = Zero
    /\ mc.friction2Impulse = Zero
    /\ mc.frictionTwistImpulse = Zero
    /\ mc.rollingResistanceImpulse = VZero

\* C15: warm start sets the penetrationImpulse of every point that was not resting
\* to 0, and the friction, twist and rolling resistance impulses of every manifold
\* none of whose points was resting to 0; the pass over such a manifold (its points,
\* then its manifold-level impulses) changes no constrained velocity, so a body all
\* of whose manifolds are new has the constrained velocities it had before.
WarmStartClearsNewContacts ==
    [][pc = "warmStart" =>
          /\ \A cp \in 1 .. st.mNbContactPoints :
                 ~st.mContactPoints[cp].isRestingContact =>
                     st'.mContactPoints[cp].penetrationImpulse = Zero
          /\ \A mf \in 1 .. st.mNbContactManifolds :
                 newManifoldRecord(st, mf) =>
                     /\ accumulatorsCleared(st'.mContactConstraints[mf])
                     /\ constrainedVelocitiesOf(
                            warmStartManifold(
                                warmStartPoints(st, mf, firstPointOf(st, mf),
                                    firstPointOf(st, mf) + st.mContactConstraints[mf].nbContacts - 1),
                                mf, FALSE)) = constrainedVelocitiesOf(st)
          /\ \A b \in bodiesOfRecords(st) :
                 (\A mf \in recordsOfBody(st, b) : newManifoldRecord(st, mf)) =>
                     /\ st'.mConstrainedLinearVelocities[b] = st.mConstrainedLinearVelocities[b]
                     /\ st'.mConstrainedAngularVelocities[b] = st.mConstrainedAngularVelocities[b]]_vars

\* Warm start has run in a later step on a new manifold whose external manifold
\* carries a friction impulse and whose point carries a penetration impulse, next
\* to a manifold that has a resting point and a new point that carries an impulse.
WarmStartedWithStaleImpulses ==
    /\ pc = "ready"
    /\ iter = 0
    /\ \E mf \in 1 .. st.mNbContactManifolds :
           /\ newManifoldRecord(st, mf)
           /\ st.mAllContactManifolds[
                  st.mContactConstraints[mf].externalContactManifold + 1].frictionImpulse1 # Zero
           /\ \E cp \in pointsOf(st, mf) :
                  st.mAllContactPoints[
                      st.mContactPoints[cp].externalContact + 1].penetrationImpulse # Zero
    /\ \E mf \in 1 .. st.mNbContactManifolds :
           /\ ~newManifoldRecord(st, mf)
           /\ \E cp \in pointsOf(st, mf) :
                  /\ ~st.mContactPoints[cp].isRestingContact
                  /\ st.mAllContactPoints[
                         st.mContactPoints[cp].externalContact + 1].penetrationImpulse # Zero

(***************************************************************************)
(* C16                                                                     *)
(***************************************************************************)
\* t1, t2 is an orthonormal basis of the plane orthogonal to the unit vector n,
\* each of the three vectors along an axis (the decimal arithmetic of the
\* projection is then exact)
tangentBasis(t1, t2, n) ==
    /\ \A v \in {t1, t2, n} : Cardinality({k \in 1 .. 3 : v[k] # Zero}) = 1
    /\ VLength(t1) = One
    /\ VLength(t2) = One
    /\ VDot(t1, t2) = Zero
    /\ VDot(t1, n) = Zero
    /\ VDot(t2, n) = Zero
\* the impulses f[1], f[2] along t1, t2, seen along u1, u2
reprojected(f, t1, t2, u1, u2) ==
    <<VDot(VAdd(VScale(f[1], t1), VScale(f[2], t2)), u1),
      VDot(VAdd(VScale(f[1], t1), VScale(f[2], t2)), u2)>>
squaredLength(f) == Add(Mul(f[1], f[1]), Mul(f[2], f[2]))
frictionImpulsesOf(mc) == <<mc.friction1Impulse, mc.friction2Impulse>>
projectionKeepsImpulse(before, after) ==
    (/\ tangentBasis(before.oldFrictionVector1, before.oldFrictionVector2, before.normal)
     /\ tangentBasis(before.frictionVector1, before.frictionVector2, before.normal)) =>
        /\ squaredLength(frictionImpulsesOf(after)) = squaredLength(frictionImpulsesOf(before))
        /\ reprojected(frictionImpulsesOf(after),
                       before.frictionVector1, before.frictionVector2,
                       before.oldFrictionVector1, before.oldFrictionVector2) =
               frictionImpulsesOf(before)

\* C16: when warm start projects the friction impulses of a manifold from the old
\* friction vectors on the new ones, and both pairs are orthonormal bases (along
\* the axes) of the tangent plane of the manifold, the new pair of impulses has the
\* same sum of squares as the old pair, and projected back on the old vectors it is
\* the old pair.
FrictionProjectionKeepsImpulse ==
    [][pc = "warmStart" =>
          \A mf \in 1 .. st.mNbContactManifolds :
              ~newManifoldRecord(st, mf) =>
                  projectionKeepsImpulse(st.mContactConstraints[mf],
                                         st'.mContactConstraints[mf])]_vars

\* Warm start has projected a friction impulse that is not 0 on a basis that is not
\* the old one.
FrictionProjectedOnTurnedBasis ==
    /\ pc = "ready"
    /\ iter = 0
    /\ \E mf \in 1 .. st.mNbContactManifolds :
           LET mc == st.mContactConstraints[mf]
           IN  /\ ~newManifoldRecord(st, mf)
               /\ tangentBasis(mc.oldFrictionVector1, mc.oldFrictionVector2, mc.normal)
               /\ tangentBasis(mc.frictionVector1, mc.frictionVector2, mc.normal)
               /\ mc.frictionVector1 # mc.oldFrictionVector1
               /\ mc.friction1Impulse # Zero

(***************************************************************************)
(* C17                                                                     *)
(***************************************************************************)
\* the external point (from 1) of point record cp
externalOf(s, cp) == s.mContactPoints[cp].externalContact + 1
externalImpulses(s) ==
    [k \in 1 .. Len(s.mAllContactPoints) |-> s.mAllContactPoints[k].penetrationImpulse]

\* C17: init gives every point record the isRestingContact flag and the
\* penetrationImpulse that its external point held before init, and sets the flag
\* of that external point; warm start keeps the impulse of a record whose flag is
\* set and clears the impulse of a record whose flag is not set; of the solver's
\* operations only storeImpulses changes the penetrationImpulse of an external
\* point, and it writes the impulse of the record.  So a point that is new in a
\* step is not warm-started in that step, and a point that persists is
\* warm-started in the next step with the impulse storeImpulses wrote.
RestingFlagAcrossSteps ==
    [][/\ (pc = "idle" /\ pc' = "warmStart") =>
              \A cp \in 1 .. st'.mNbContactPoints :
                  /\ st'.mContactPoints[cp].isRestingContact =
                         st.mAllContactPoints[externalOf(st', cp)].isRestingContact
                  /\ st'.mContactPoints[cp].penetrationImpulse =
                         st.mAllContactPoints[externalOf(st', cp)].penetrationImpulse
                  /\ st'.mAllContactPoints[externalOf(st', cp)].isRestingContact
       /\ pc = "warmStart" =>
              \A cp \in 1 .. st.mNbContactPoints :
                  st'.mContactPoints[cp].penetrationImpulse =
                      IF st.mContactPoints[cp].isRestingContact
                      THEN st.mAllContactPoints[externalOf(st, cp)].penetrationImpulse
                      ELSE Zero
       /\ (pc \notin {"released"} /\ pc' # "stored") =>
              externalImpulses(st') = externalImpulses(st)
       /\ pc' = "stored" =>
              \A cp \in 1 .. st.mNbContactPoints :
                  st'.mAllContactPoints[externalOf(st, cp)].penetrationImpulse =
                      st.mContactPoints[cp].penetrationImpulse
       /\ pc = "released" =>
              \A k \in 1 .. Len(st.mAllContactPoints) :
                  st'.mAllContactPoints[k].isRestingContact =>
                      /\ st.mAllContactPoints[k].isRestingContact
                      /\ st'.mAllContactPoints[k].penetrationImpulse =
                             st.mAllContactPoints[k].penetrationImpulse]_vars

\* In the second step warm start has run on a manifold with a point that has
\* persisted, warm-started with the impulse (not 0) that the first step stored, and
\* a point that is new, with no impulse although its external point carries one.
PersistingPointWarmStarted ==
    /\ step = 2
    /\ pc = "ready"
    /\ iter = 0
    /\ \E mf \in 1 .. st.mNbContactManifolds :
           /\ \E cp \in pointsOf(st, mf) :
                  /\ st.mContactPoints[cp].isRestingContact
                  /\ st.mContactPoints[cp].penetrationImpulse # Zero
                  /\ st.mContactPoints[cp].penetrationImpulse =
                         st.mAllContactPoints[externalOf(st, cp)].penetrationImpulse
           /\ \E cp \in pointsOf(st, mf) :
                  /\ ~st.mContactPoints[cp].isRestingContact
                  /\ st.mContactPoints[cp].penetrationImpulse = Zero
                  /\ st.mAllContactPoints[externalOf(st, cp)].penetrationImpulse # Zero
                  /\ st.mAllContactPoints[externalOf(st, cp)].isRestingContact

(***************************************************************************)
(* C18                                                                     *)
(***************************************************************************)
\* the worlds a step can start from, each with a solver as constructed
InitialWorlds == Worlds
\* the inputs of state w, with the solver of state s: its counters, its records,
\* its pointers, its time step, and the arena as s left it
withSolverOf(w, s) ==
    [w EXCEPT !.mTimeStep = s.mTimeStep,
              !.mNbContactManifolds = s.mNbContactManifolds,
              !.mNbContactPoints = s.mNbContactPoints,
              !.mContactConstraints = s.mContactConstraints,
              !.mContactPoints = s.mContactPoints,
              !.mContactConstraintsPtr = s.mContactConstraintsPtr,
              !.mContactPointsPtr = s.mContactPointsPtr,
              !.sumPenetrationImpulse = s.sumPenetrationImpulse,
              !.frame = s.frame]
\* the inputs of state s, with a solver as constructed
withNewSolver(s) ==
    [s EXCEPT !.mTimeStep = Zero,
              !.mNbContactManifolds = 0,
              !.mNbContactPoints = 0,
              !.mContactConstraints = <<>>,
              !.mContactPoints = <<>>,
              !.mContactConstraintsPtr = 0,
              !.mContactPointsPtr = 0,
              !.sumPenetrationImpulse = Zero,
              !.frame = [live |-> {}, next |-> 1, released |-> <<>>]]
\* what init leaves: the solver's time step, counters and records (of the pointers,
\* whether they are null), and the inputs that init writes
initResultOf(s) ==
    <<s.mTimeStep, s.mNbContactManifolds, s.mNbContactPoints, s.mContactConstraints,
      s.mContactPoints, s.mContactConstraintsPtr = 0, s.mContactPointsPtr = 0,
      s.mAllContactManifolds, s.mAllContactPoints,
      s.mConstrainedLinearVelocities, s.mConstrainedAngularVelocities,
      s.mSplitLinearVelocities, s.mSplitAngularVelocities>>
sameInitResult(w, s) ==
    initResultOf(initAndWarmStart(withSolverOf(w, s), w.timeStep)) =
        initResultOf(initAndWarmStart(w, w.timeStep))

\* the worlds a step of this run can have started from: those with its materials,
\* its velocity factors and its split impulse setting
firstWorldsOf(s) ==
    {w \in InitialWorlds :
        /\ w.material = s.material
        /\ w.mLinearVelocitiesFactors = s.mLinearVelocitiesFactors
        /\ w.mAngularVelocitiesFactors = s.mAngularVelocitiesFactors
        /\ w.mIsSplitImpulseActive = s.mIsSplitImpulseActive}

\* C18: after reset, init gives the result that a solver as constructed gives on
\* the same inputs: on the inputs as the step has left them, and on the inputs of
\* every world the run can have started from (those of the first init among
\* them), whatever counters and records the init, solve and reset before have left.
InitAfterResetAsFirstInit ==
    pc = "released" =>
        /\ sameInitResult(withNewSolver(st), st)
        /\ \A w \in firstWorldsOf(st) : sameInitResult(w, st)

\* reset has run and the solver still holds the counters and the records of the
\* step, three point records with impulses among them
ResetWithRecordsLeft ==
    /\ pc = "released"
    /\ st.mNbContactManifolds = 2
    /\ st.mNbContactPoints = 3
    /\ st.mContactConstraintsPtr # 0
    /\ \E cp \in 1 .. 3 : st.mContactPoints[cp].penetrationImpulse # Zero
    /\ st.mContactConstraints[1].friction1Impulse # Zero

(***************************************************************************)
(* C19                                                                     *)
(***************************************************************************)
\* exactly one of the external lists is empty
oneListEmpty(s) == (Len(s.mAllContactManifolds) = 0) # (Len(s.mAllContactPoints) = 0)

\* C19: every block that reset has released was a live block of the arena, of the
\* type and size of the release; after reset no block that init allocated is live;
\* and when exactly one of the external lists is empty nothing is allocated and
\* nothing is released.
ArenaBalanced ==
    /\ \A k \in 1 .. Len(st.frame.released) : st.frame.released[k].wasLive
    /\ pc = "released" => st.frame.live = {}
    /\ oneListEmpty(st) => st.frame.live = {} /\ st.frame.released = <<>>

(***************************************************************************)
(* C20                                                                     *)
(***************************************************************************)
\* the velocity of body 2 relative to body 1 at point record cp, from the
\* constrained velocities: v2 + w2 x r2 - v1 - w1 x r1
relativeVelocityOf(s, cp) ==
    LET mc == s.mContactConstraints[manifoldOf(s, cp)]
        pt == s.mContactPoints[cp]
        b1 == mc.rigidBodyComponentIndexBody1
        b2 == mc.rigidBodyComponentIndexBody2
    IN  VSub(VSub(VAdd(s.mConstrainedLinearVelocities[b2],
                       VCross(s.mConstrainedAngularVelocities[b2], pt.r2)),
                  s.mConstrainedLinearVelocities[b1]),
             VCross(s.mConstrainedAngularVelocities[b1], pt.r1))
\* the same along the normal of the point
relativeNormalVelocityOf(s, cp) == VDot(relativeVelocityOf(s, cp), s.mContactPoints[cp].normal)

\* C20: after init and any number of solve() calls of the first step, every contact
\* point has the same relative velocity in the run with the bodies exchanged and
\* the normals negated as in the original run: the same velocity along its normal,
\* and the same velocity of one body relative to the other (body 2 of the swapped
\* run being body 1 of the original).
SwapSymmetric ==
    (Solved /\ step = 1) =>
        \A cp \in 1 .. st.mNbContactPoints :
            /\ relativeNormalVelocityOf(swp, cp) = relativeNormalVelocityOf(st, cp)
            /\ relativeVelocityOf(swp, cp) = VNeg(relativeVelocityOf(st, cp))

(***************************************************************************)
(* C21                                                                     *)
(***************************************************************************)
\* the head-on scenario: A is body 1 with velocity (1,0,0), B is body 2 with
\* velocity (-1,0,0), one point that is not resting, normal (1,0,0), mixed
\* restitution 1, r1 and r2 along the normal, all velocity factors 1
headOn(s) ==
    /\ s.mAllContactManifolds = LayoutHeadOn.manifolds
    /\ s.material["cA"] = MaterialElastic
    /\ \A b \in 1 .. 3 : s.mLinearVelocitiesFactors[b] = Ones
                          /\ s.mAngularVelocitiesFactors[b] = Ones
\* a is b within 1% of |b|
withinOnePercent(a, b) == DAbs(Sub(a, b)) * 100 <= DAbs(b)
normalOfHeadOn == V3(1, 0, 0)

\* C21: in the head-on scenario, after every solve() call of the first step the
\* velocity of A along the normal is +1 and that of B is -1, within 1%.
HeadOnElasticReflection ==
    (Solved /\ step = 1 /\ headOn(st)) =>
        /\ withinOnePercent(VDot(st.mConstrainedLinearVelocities[1], normalOfHeadOn), One)
        /\ withinOnePercent(VDot(st.mConstrainedLinearVelocities[2], normalOfHeadOn),
                            Neg(One))

(***************************************************************************)
(* C22                                                                     *)
(***************************************************************************)
\* the effective masses K of the constraints, from the records: of the normal
\* constraint of point record cp, of the two friction constraints and of the twist
\* constraint of a manifold record mc
normalMassOf(s, cp) ==
    LET mc == s.mContactConstraints[manifoldOf(s, cp)]
        pt == s.mContactPoints[cp]
    IN  Add(Add(Add(mc.massInverseBody1, mc.massInverseBody2),
                VDot(VCross(pt.i1TimesR1CrossN, pt.r1), pt.normal)),
            VDot(VCross(pt.i2TimesR2CrossN, pt.r2), pt.normal))
frictionMassOf(mc, t, r1CrossT, r2CrossT) ==
    Add(Add(Add(mc.massInverseBody1, mc.massInverseBody2),
            VDot(VCross(MatVec(mc.inverseInertiaTensorBody1, r1CrossT), mc.r1Friction), t)),
        VDot(VCross(MatVec(mc.inverseInertiaTensorBody2, r2CrossT), mc.r2Friction), t))
friction1MassOf(mc) == frictionMassOf(mc, mc.frictionVector1, mc.r1CrossT1, mc.r2CrossT1)
friction2MassOf(mc) == frictionMassOf(mc, mc.frictionVector2, mc.r1CrossT2, mc.r2CrossT2)
twistMassOf(mc) ==
    Add(VDot(mc.normal, MatVec(mc.inverseInertiaTensorBody1, mc.normal)),
        VDot(mc.normal, MatVec(mc.inverseInertiaTensorBody2, mc.normal)))
notPositive(K) == ~Gt(K, Zero)
allFactorsOne(s) ==
    \A b \in DOMAIN s.mLinearVelocitiesFactors :
        s.mLinearVelocitiesFactors[b] = Ones /\ s.mAngularVelocitiesFactors[b] = Ones
velocitiesOf(s) ==
    <<s.mConstrainedLinearVelocities, s.mConstrainedAngularVelocities,
      s.mSplitLinearVelocities, s.mSplitAngularVelocities>>
\* init has stored 0 for the inverse of every effective mass that is not positive
degenerateInversesAreZero(s) ==
    /\ \A cp \in 1 .. s.mNbContactPoints :
           notPositive(normalMassOf(s, cp)) => s.mContactPoints[cp].inversePenetrationMass = Zero
    /\ \A mf \in 1 .. s.mNbContactManifolds :
           LET mc == s.mContactConstraints[mf]
           IN  /\ notPositive(friction1MassOf(mc)) => mc.inverseFriction1Mass = Zero
               /\ notPositive(friction2MassOf(mc)) => mc.inverseFriction2Mass = Zero
               /\ notPositive(twistMassOf(mc)) => mc.inverseTwistFrictionMass = Zero
\* the update from s to t of a constraint with accumulator before and after, and a
\* correction of 0 projected by `projected`, has changed no velocity if all factors are 1
absorbed(s, t, before, after, projected) ==
    /\ after = projected
    /\ allFactorsOne(s) => velocitiesOf(t) = velocitiesOf(s)

\* C22: for every normal, friction or twist constraint whose effective mass K is
\* not positive, init stores 0 as the inverse of K, and every update of the
\* constraint in solve() adds the correction 0 to its accumulator before the
\* projection and, when all velocity factors are 1, changes no velocity.
DegenerateMassAbsorbed ==
    [][/\ pc' = "warmStart" => degenerateInversesAreZero(st')
       /\ (pc = "penetration" /\ notPositive(normalMassOf(st, contactPointIndex))) =>
              absorbed(st, st', st.mContactPoints[contactPointIndex].penetrationImpulse,
                       st'.mContactPoints[contactPointIndex].penetrationImpulse,
                       Max(st.mContactPoints[contactPointIndex].penetrationImpulse, Zero))
       /\ (pc = "split" /\ notPositive(normalMassOf(st, contactPointIndex))) =>
              absorbed(st, st', st.mContactPoints[contactPointIndex].penetrationSplitImpulse,
                       st'.mContactPoints[contactPointIndex].penetrationSplitImpulse,
                       Max(st.mContactPoints[contactPointIndex].penetrationSplitImpulse, Zero))
       /\ (pc = "friction1" /\ notPositive(friction1MassOf(st.mContactConstraints[c]))) =>
              absorbed(st, st', st.mContactConstraints[c].friction1Impulse,
                       st'.mContactConstraints[c].friction1Impulse,
                       clampFrictionImpulse(st.mContactConstraints[c].friction1Impulse, Zero,
                                            frictionLimitOf(st.mContactConstraints[c],
                                                            st.sumPenetrationImpulse)))
       /\ (pc = "friction2" /\ notPositive(friction2MassOf(st.mContactConstraints[c]))) =>
              absorbed(st, st', st.mContactConstraints[c].friction2Impulse,
                       st'.mContactConstraints[c].friction2Impulse,
                       clampFrictionImpulse(st.mContactConstraints[c].friction2Impulse, Zero,
                                            frictionLimitOf(st.mContactConstraints[c],
                                                            st.sumPenetrationImpulse)))
       /\ (pc = "twist" /\ notPositive(twistMassOf(st.mContactConstraints[c]))) =>
              absorbed(st, st', st.mContactConstraints[c].frictionTwistImpulse,
                       st'.mContactConstraints[c].frictionTwistImpulse,
                       clampFrictionImpulse(st.mContactConstraints[c].frictionTwistImpulse, Zero,
                                            frictionLimitOf(st.mContactConstraints[c],
                                                            st.sumPenetrationImpulse)))]_vars

\* solve() has updated, through its twist constraint, a manifold between two
\* bodies without inverse mass and inverse inertia: all its effective masses are 0,
\* the point is deeper than the slop and split impulse is off (the bias is not 0),
\* and all velocity factors are 1
DegenerateManifoldSolved ==
    /\ lastUpdate[1] = "twist"
    /\ allFactorsOne(st)
    /\ ~st.mIsSplitImpulseActive
    /\ LET mc == st.mContactConstraints[lastUpdate[2]]
           cp == firstPointOf(st, lastUpdate[2])
       IN  /\ mc.massInverseBody1 = Zero /\ mc.massInverseBody2 = Zero
           /\ normalMassOf(st, cp) = Zero
           /\ friction1MassOf(mc) = Zero
           /\ friction2MassOf(mc) = Zero
           /\ twistMassOf(mc) = Zero
           /\ biasPenetrationDepthOf(st, st.mContactPoints[cp]) # Zero

(***************************************************************************)
(* C23                                                                     *)
(***************************************************************************)
\* the values that each field of a material is taken from
BouncinessValues == {Zero, D(1, 4), D(1, 2), One}
FrictionValues == {Zero, D(1, 4), One, Dec(4, 1)}
RollingValues == {Zero, D(1, 2), One}
\* pairs of materials that differ from MaterialOther in one field
MaterialPairs ==
    {<<[MaterialOther EXCEPT !.bounciness = a], [MaterialOther EXCEPT !.bounciness = b]>> :
        a, b \in BouncinessValues}
        \cup
    {<<[MaterialOther EXCEPT !.frictionCoefficient = a],
       [MaterialOther EXCEPT !.frictionCoefficient = b]>> : a, b \in FrictionValues}
        \cup
    {<<[MaterialOther EXCEPT !.rollingResistance = a],
       [MaterialOther EXCEPT !.rollingResistance = b]>> : a, b \in RollingValues}
\* a collider store with the materials ma and mb on the colliders of A and B
withMaterials(ma, mb) ==
    [material |-> [k \in Colliders |-> CASE k = "cA" -> ma [] k = "cB" -> mb
                                          [] k = "cG" -> MaterialOther]]
\* m is the larger of a and b
largerOf(m, a, b) == m \in {a, b} /\ m >= a /\ m >= b
\* m is the arithmetic mean of a and b, g their geometric mean, to one unit of the
\* decimal resolution
arithmeticMeanOf(m, a, b) == 2 * m - 2 <= a + b /\ a + b <= 2 * m + 2
geometricMeanOf(g, a, b) ==
    /\ g >= 0
    /\ (IF g > 0 THEN (g - 1) * (g - 1) ELSE 0) <= a * b
    /\ a * b <= (g + 1) * (g + 1)
mixedAsSpecified(s, k1, k2) ==
    /\ largerOf(computeMixedRestitutionFactor(s, k1, k2),
                s.material[k1].bounciness, s.material[k2].bounciness)
    /\ arithmeticMeanOf(computeMixedRollingResistance(s, k1, k2),
                        s.material[k1].rollingResistance, s.material[k2].rollingResistance)
    /\ geometricMeanOf(computeMixedFrictionCoefficient(s, k1, k2),
                       s.material[k1].frictionCoefficient,
                       s.material[k2].frictionCoefficient)
    /\ computeMixedRestitutionFactor(s, k1, k2) = computeMixedRestitutionFactor(s, k2, k1)
    /\ computeMixedRollingResistance(s, k1, k2) = computeMixedRollingResistance(s, k2, k1)
    /\ computeMixedFrictionCoefficient(s, k1, k2) = computeMixedFrictionCoefficient(s, k2, k1)
\* the colliders of manifold record mf
collider1Of(s, mf) ==
    s.mAllContactManifolds[s.mContactConstraints[mf].externalContactManifold + 1].colliderEntity1
collider2Of(s, mf) ==
    s.mAllContactManifolds[s.mContactConstraints[mf].externalContactManifold + 1].colliderEntity2

\* C23: for any two colliders the mixed restitution is the larger of the two
\* bounciness values, the mixed rolling resistance the arithmetic mean of the two
\* rolling resistances and the mixed friction the geometric mean of the two friction
\* coefficients, each the same with the colliders exchanged; the friction
\* coefficient and the rolling resistance factor of every manifold record are these
\* mixed values of the manifold's two colliders.  The functions are taken on the
\* colliders of the world and on pairs of materials, at the start of every step.
MaterialsMixedAsSpecified ==
    /\ pc = "idle" =>
           /\ \A k1, k2 \in Colliders : mixedAsSpecified(st, k1, k2)
           /\ \A pair \in MaterialPairs :
                  mixedAsSpecified(withMaterials(pair[1], pair[2]), "cA", "cB")
    /\ Built =>
           \A mf \in 1 .. st.mNbContactManifolds :
               /\ geometricMeanOf(st.mContactConstraints[mf].frictionCoefficient,
                      st.material[collider1Of(st, mf)].frictionCoefficient,
                      st.material[collider2Of(st, mf)].frictionCoefficient)
               /\ arithmeticMeanOf(st.mContactConstraints[mf].rollingResistanceFactor,
                      st.material[collider1Of(st, mf)].rollingResistance,
                      st.material[collider2Of(st, mf)].rollingResistance)

\* init has built a manifold record whose two colliders differ in bounciness, in
\* friction and in rolling resistance, and a point of it has a restitution bias
MixedDifferentMaterials ==
    /\ pc = "warmStart"
    /\ \E mf \in 1 .. st.mNbContactManifolds :
           LET m1 == st.material[collider1Of(st, mf)]
               m2 == st.material[collider2Of(st, mf)]
           IN  /\ m1.bounciness # m2.bounciness
               /\ m1.frictionCoefficient # m2.frictionCoefficient
               /\ m1.rollingResistance # m2.rollingResistance
               /\ st.mContactConstraints[mf].frictionCoefficient = D(1, 2)
               /\ \E cp \in pointsOf(st, mf) : st.mContactPoints[cp].restitutionBias # Zero

(***************************************************************************)
(* C24                                                                     *)
(***************************************************************************)
\* the bodies with inverse mass or inverse inertia of the manifold records of island k
movableBodiesOfIsland(s, k) ==
    LET records == (nbRecordsBefore(s, k) + 1) ..
                       (nbRecordsBefore(s, k) + s.islands.nbContactManifolds[k])
        bodies == {s.mContactConstraints[mf].rigidBodyComponentIndexBody1 : mf \in records}
                      \cup
                  {s.mContactConstraints[mf].rigidBodyComponentIndexBody2 : mf \in records}
    IN  {b \in bodies : s.mInverseMasses[b] # Zero}
\* everything but the local sumPenetrationImpulse of the manifold loops
outcomeOf(s) == [s EXCEPT !.sumPenetrationImpulse = Zero]

\* C24: when the movable bodies of the two islands are disjoint, a sweep in which
\* the updates of the two islands were made in any order, each island with its own
\* manifold loop, ends with the constrained velocities, the split velocities and
\* the accumulators (with all the rest of the state) of one call of solve(), which
\* makes all updates of one island before those of the other.
IslandsCommute ==
    (/\ pc = "islands"
     /\ islandsDone
     /\ movableBodiesOfIsland(st, 1) \cap movableBodiesOfIsland(st, 2) = {}) =>
        outcomeOf(st) = outcomeOf(alt)

\* A second sweep has ended in which the islands took turns (1, 2, then 1 again),
\* both islands hold impulses, and a body of each island has moved in the sweep.
IslandsInterleaved ==
    /\ pc = "islands"
    /\ islandsDone
    /\ iter = 1
    /\ sweep = <<1, 2, 1>>
    /\ movableBodiesOfIsland(st, 1) # {}
    /\ movableBodiesOfIsland(st, 2) # {}
    /\ movableBodiesOfIsland(st, 1) \cap movableBodiesOfIsland(st, 2) = {}
    /\ \A mf \in 1 .. 2 :
           /\ \E cp \in pointsOf(st, mf) : st.mContactPoints[cp].penetrationImpulse # Zero
           /\ st.mContactConstraints[mf].friction1Impulse # Zero

(***************************************************************************)
(* C25                                                                     *)
(***************************************************************************)
\* C25: every call of init runs warmStart, once, after it has built the records and
\* before it returns: the step that leaves the idle caller ends in the call of
\* warmStart, warmStart is entered from init only, and it returns to a caller that
\* has made no solve() call in the step.
WarmStartOncePerInit ==
    [][/\ pc = "idle" => pc' = "warmStart"
       /\ pc' = "warmStart" => pc = "idle"
       /\ pc = "warmStart" => (pc' = "ready" /\ iter' = 0)
       /\ pc' \in SolvePhases => pc \in SolvePhases \cup {"ready"}]_vars

(***************************************************************************)
(* C26                                                                     *)
(***************************************************************************)
\* the constrained velocities of the two bodies of point record cp after a normal
\* update that has added deltaLambda to its impulse, each component multiplied once
\* by the factor of its body and axis
factorsAppliedOnce(s, cp, deltaLambda) ==
    LET mc == s.mContactConstraints[manifoldOf(s, cp)]
        pt == s.mContactPoints[cp]
        b1 == mc.rigidBodyComponentIndexBody1
        b2 == mc.rigidBodyComponentIndexBody2
        linearImpulse == VScale(deltaLambda, pt.normal)
    IN  [linear1 |-> VMulComp(VSub(s.mConstrainedLinearVelocities[b1],
                                   VScale(mc.massInverseBody1, linearImpulse)),
                              s.mLinearVelocitiesFactors[b1]),
         angular1 |-> VMulComp(VSub(s.mConstrainedAngularVelocities[b1],
                                    VScale(deltaLambda, pt.i1TimesR1CrossN)),
                               s.mAngularVelocitiesFactors[b1]),
         linear2 |-> VMulComp(VAdd(s.mConstrainedLinearVelocities[b2],
                                   VScale(mc.massInverseBody2, linearImpulse)),
                              s.mLinearVelocitiesFactors[b2]),
         angular2 |-> VMulComp(VAdd(s.mConstrainedAngularVelocities[b2],
                                    VScale(deltaLambda, pt.i2TimesR2CrossN)),
                               s.mAngularVelocitiesFactors[b2])]
constrainedVelocitiesOfPoint(s, cp) ==
    LET mc == s.mContactConstraints[manifoldOf(s, cp)]
    IN  [linear1 |-> s.mConstrainedLinearVelocities[mc.rigidBodyComponentIndexBody1],
         angular1 |-> s.mConstrainedAngularVelocities[mc.rigidBodyComponentIndexBody1],
         linear2 |-> s.mConstrainedLinearVelocities[mc.rigidBodyComponentIndexBody2],
         angular2 |-> s.mConstrainedAngularVelocities[mc.rigidBodyComponentIndexBody2]]

\* C26: the normal update of a point leaves each component of the constrained linear
\* and angular velocity of body 1 and of body 2 as the velocity after the impulse
\* times the factor of that body and axis, taken once.
VelocityFactorsAppliedOnce ==
    [][pc = "penetration" =>
          constrainedVelocitiesOfPoint(st', contactPointIndex) =
              factorsAppliedOnce(st, contactPointIndex,
                                 Sub(st'.mContactPoints[contactPointIndex].penetrationImpulse,
                                     st.mContactPoints[contactPointIndex].penetrationImpulse))]_vars

(***************************************************************************)
(* C27                                                                     *)
(***************************************************************************)
\* the external lists
externalListsOf(s) == <<s.mAllContactManifolds, s.mAllContactPoints>>
\* the external accumulators: of every point, of every manifold
externalAccumulatorsOf(s) ==
    <<[k \in DOMAIN s.mAllContactPoints |-> s.mAllContactPoints[k].penetrationImpulse],
      [k \in DOMAIN s.mAllContactManifolds |->
          <<s.mAllContactManifolds[k].frictionImpulse1,
            s.mAllContactManifolds[k].frictionImpulse2,
            s.mAllContactManifolds[k].frictionTwistImpulse,
            s.mAllContactManifolds[k].rollingResistanceImpulse,
            s.mAllContactManifolds[k].frictionVector1,
            s.mAllContactManifolds[k].frictionVector2>>]>>
\* the external lists but for the isRestingContact flags of the points
withoutRestingFlags(s) ==
    <<s.mAllContactManifolds,
      [k \in DOMAIN s.mAllContactPoints |->
          [s.mAllContactPoints[k] EXCEPT !.isRestingContact = FALSE]]>>

\* C27: init writes nothing of the external lists but the isRestingContact flags of
\* the points; warm start and every update and call of solve() leave the external
\* lists as they are, so that until storeImpulses the penetrationImpulse of every
\* external point and the frictionImpulse1, frictionImpulse2, frictionTwistImpulse,
\* rollingResistanceImpulse, frictionVector1 and frictionVector2 of every external
\* manifold are those of the step before.
ExternalAccumulatorsKept ==
    [][/\ pc = "idle" => withoutRestingFlags(st') = withoutRestingFlags(st)
       /\ (pc = "warmStart" \/ pc \in SolvePhases \/ (pc = "ready" /\ pc' # "stored")) =>
              /\ externalListsOf(st') = externalListsOf(st)
              /\ externalAccumulatorsOf(st') = externalAccumulatorsOf(st)]_vars

\* In the second step, after a solve() call: the external lists hold the impulses
\* and friction vectors that the first step stored, and the records of the solver
\* hold other values.
ExternalBehindRecords ==
    /\ Solved
    /\ step = 2
    /\ \E cp \in 1 .. st.mNbContactPoints :
           /\ st.mAllContactPoints[externalOf(st, cp)].penetrationImpulse # Zero
           /\ st.mAllContactPoints[externalOf(st, cp)].penetrationImpulse #
                  st.mContactPoints[cp].penetrationImpulse
    /\ \E mf \in 1 .. st.mNbContactManifolds :
           LET mc == st.mContactConstraints[mf]
               externalManifold == st.mAllContactManifolds[mc.externalContactManifold + 1]
           IN  /\ externalManifold.frictionImpulse1 # Zero
               /\ externalManifold.frictionImpulse1 # mc.friction1Impulse
               /\ externalManifold.frictionVector1 # VZero

(***************************************************************************)
(* C28                                                                     *)
(***************************************************************************)
\* the bias of the velocity constraint of point pt: restitutionBias with split
\* impulse, restitutionBias + b_pos without
velocityBiasOf(s, pt) ==
    IF s.mIsSplitImpulseActive THEN pt.restitutionBias
    ELSE Add(pt.restitutionBias, positionBiasAsSpecified(s, pt))
\* Jv + bias of point record cp with the velocities of state s
normalResidualOf(s, cp) == Add(normalVelocityOf(s, cp), velocityBiasOf(s, s.mContactPoints[cp]))
\* what the rounding of the decimal products may leave of a residual of 0
ResidualTolerance == D(1, 100)
complementary(residual, lambda) ==
    /\ Le(Neg(ResidualTolerance), residual)
    /\ Le(Zero, lambda)
    /\ Gt(lambda, Zero) => Le(DAbs(residual), ResidualTolerance)

\* C28: with all velocity factors 1, the normal update of a point with K_n > 0
\* leaves Jv' + bias >= 0 and penetrationImpulse >= 0, and Jv' + bias = 0 when the
\* penetrationImpulse is > 0, Jv' being the relative normal velocity of the point
\* with the velocities after the update (0 is taken to ResidualTolerance).
NormalUpdateComplementary ==
    [][(/\ pc = "penetration"
        /\ allFactorsOne(st)
        /\ Gt(normalMassOf(st, contactPointIndex), Zero)) =>
           complementary(normalResidualOf(st', contactPointIndex),
                         st'.mContactPoints[contactPointIndex].penetrationImpulse)]_vars

\* In a later solve() call of a world with all factors 1, the last update was the
\* normal update of the first point of a manifold, with K_n > 0 and a bias that is
\* not 0: the point pushes and its residual is 0, while the second point of the
\* manifold is without impulse, its bodies separating there (residual > 0).
NormalUpdatesPushingAndIdle ==
    /\ lastUpdate[1] = "penetration"
    /\ lastUpdate[3] = 1
    /\ iter >= 1
    /\ allFactorsOne(st)
    /\ st.mContactConstraints[lastUpdate[2]].nbContacts = 2
    /\ LET cp == firstPointOf(st, lastUpdate[2])
       IN  /\ Gt(normalMassOf(st, cp), Zero)
           /\ velocityBiasOf(st, st.mContactPoints[cp]) # Zero
           /\ Gt(st.mContactPoints[cp].penetrationImpulse, Zero)
           /\ Le(DAbs(normalResidualOf(st, cp)), ResidualTolerance)
           /\ st.mContactPoints[cp + 1].penetrationImpulse = Zero
           /\ Gt(normalResidualOf(st, cp + 1), Zero)

(***************************************************************************)
(* C29                                                                     *)
(***************************************************************************)
splitImpulsesOf(s) ==
    [cp \in DOMAIN s.mContactPoints |-> s.mContactPoints[cp].penetrationSplitImpulse]
allZero(f) == \A k \in DOMAIN f : f[k] = Zero
noneNegative(f) == \A k \in DOMAIN f : Le(Zero, f[k])

\* C29: every init leaves the penetrationSplitImpulse of every point record at 0,
\* whatever the step before left, and the warm start keeps it at 0; with split
\* impulse active no update of solve() leaves a penetrationSplitImpulse below 0.
SplitImpulseStartsAtZero ==
    [][/\ (pc = "idle" \/ pc = "warmStart") => allZero(splitImpulsesOf(st'))
       /\ (pc \in SolvePhases /\ st.mIsSplitImpulseActive) =>
              noneNegative(splitImpulsesOf(st'))]_vars

\* In the first solve() call of the second step, with split impulse active, the
\* split update of the first point of a two-point manifold has just left it a
\* penetrationSplitImpulse > 0, as it did in the step before; the second point, a
\* resting contact not yet updated in this step, has its penetrationImpulse
\* from the step before and a penetrationSplitImpulse of 0.
SplitImpulseNotRestored ==
    /\ step = 2
    /\ iter = 0
    /\ st.mIsSplitImpulseActive
    /\ lastUpdate[1] = "split"
    /\ lastUpdate[3] = 1
    /\ st.mContactConstraints[lastUpdate[2]].nbContacts = 2
    /\ LET cp == firstPointOf(st, lastUpdate[2])
       IN  /\ Gt(st.mContactPoints[cp].penetrationSplitImpulse, Zero)
           /\ st.mContactPoints[cp + 1].isRestingContact
           /\ Gt(st.mContactPoints[cp + 1].penetrationImpulse, Zero)
           /\ st.mContactPoints[cp + 1].penetrationSplitImpulse = Zero

(***************************************************************************)
(* C30                                                                     *)
(***************************************************************************)
\* the manifolds of the islands k .. last that have manifolds, counted
RECURSIVE nbManifoldsOfIslands(_, _)
nbManifoldsOfIslands(s, k) ==
    IF k > Len(s.islands.nbContactManifolds) THEN 0
    ELSE s.islands.nbContactManifolds[k] + nbManifoldsOfIslands(s, k + 1)
\* the point counts of the external manifolds m .. end - 1 (from 0), summed
RECURSIVE nbPointsOfManifolds(_, _, _)
nbPointsOfManifolds(s, m, end) ==
    IF m >= end THEN 0
    ELSE s.mAllContactManifolds[m + 1].nbContactPoints + nbPointsOfManifolds(s, m + 1, end)
RECURSIVE nbPointsOfIslands(_, _)
nbPointsOfIslands(s, k) ==
    IF k > Len(s.islands.nbContactManifolds) THEN 0
    ELSE nbPointsOfManifolds(s, s.islands.contactManifoldsIndices[k],
                             s.islands.contactManifoldsIndices[k]
                                 + s.islands.nbContactManifolds[k])
         + nbPointsOfIslands(s, k + 1)
recordsCounted(s) ==
    /\ s.mNbContactManifolds = nbManifoldsOfIslands(s, 1)
    /\ s.mNbContactManifolds = Len(s.mContactConstraints)
    /\ s.mNbContactManifolds <= Len(s.mAllContactManifolds)
    /\ s.mNbContactPoints = nbPointsOfIslands(s, 1)
    /\ s.mNbContactPoints = Len(s.mContactPoints)
    /\ s.mNbContactPoints <= Len(s.mAllContactPoints)
\* point record cp was built for manifold record mf: its external point is one of
\* the points of the external manifold of mf
builtFor(s, cp, mf) ==
    LET externalManifold ==
            s.mAllContactManifolds[s.mContactConstraints[mf].externalContactManifold + 1]
        externalContact == s.mContactPoints[cp].externalContact
    IN  /\ externalManifold.contactPointsIndex <= externalContact
        /\ externalContact < externalManifold.contactPointsIndex
                                 + externalManifold.nbContactPoints
\* the running point index, which advances by nbContacts per manifold record,
\* is on the points each manifold record was built for and ends at the number
\* of point records
runningIndexOnOwnPoints(s) ==
    /\ \A mf \in 1 .. s.mNbContactManifolds :
           \A cp \in pointsOf(s, mf) :
               cp \in 1 .. s.mNbContactPoints /\ builtFor(s, cp, mf)
    /\ firstPointOf(s, s.mNbContactManifolds + 1) - 1 = s.mNbContactPoints
\* warm start has visited every point record and every manifold record with its
\* own points: the impulse of a point that is not resting is 0, that of a resting
\* point is kept, and a manifold without a resting point has no impulse
warmStartVisitedAll(s, t) ==
    /\ \A cp \in 1 .. s.mNbContactPoints :
           t.mContactPoints[cp].penetrationImpulse =
               IF s.mContactPoints[cp].isRestingContact
               THEN s.mContactPoints[cp].penetrationImpulse ELSE Zero
    /\ \A mf \in 1 .. s.mNbContactManifolds :
           newManifoldRecord(s, mf) => accumulatorsCleared(t.mContactConstraints[mf])
\* storeImpulses has visited every point record: its external point holds its impulse
storeVisitedAll(s, t) ==
    \A cp \in 1 .. s.mNbContactPoints :
        t.mAllContactPoints[s.mContactPoints[cp].externalContact + 1].penetrationImpulse =
            s.mContactPoints[cp].penetrationImpulse
\* the updates after which solve() moves to the next point record
endsPoint(phase, s) == phase = "split" \/ (phase = "penetration" /\ ~s.mIsSplitImpulseActive)

\* C30: after init the number of manifold records is the number of manifolds of the
\* islands that have manifolds and at most the length of the external manifold
\* list, the number of point records is the sum of the point counts of those
\* manifolds and at most the length of the external point list; the running point
\* index of warm start, of solve() and of storeImpulses is on each point record
\* once, under the manifold record the point was built for, and ends at the
\* number of point records.
RecordsCountedAndVisitedOnce ==
    [][/\ pc = "idle" => (recordsCounted(st') /\ runningIndexOnOwnPoints(st'))
       /\ pc = "warmStart" => warmStartVisitedAll(st, st')
       /\ (pc = "ready" /\ pc' = "penetration") => contactPointIndex' = 1
       /\ pc \in {"penetration", "split"} =>
              (contactPointIndex \in pointsOf(st, c) /\ builtFor(st, contactPointIndex, c))
       /\ (pc \in SolvePhases /\ pc' \in SolvePhases) =>
              contactPointIndex' = contactPointIndex + (IF endsPoint(pc, st) THEN 1 ELSE 0)
       /\ (pc \in SolvePhases /\ pc' = "ready") =>
              contactPointIndex - 1 = st.mNbContactPoints
       /\ pc' = "stored" => storeVisitedAll(st, st')]_vars

\* The second solve() call is about to return in a world with two islands listed
\* against the order of the manifold list: two manifold records and three point
\* records, the first manifold record built for the second external manifold,
\* and the running index at its end.
RecordsOfTwoIslandsVisited ==
    /\ pc = "rolling"
    /\ c = 2
    /\ iter = 1
    /\ st.mNbContactManifolds = 2
    /\ st.mNbContactPoints = 3
    /\ Len(st.islands.nbContactManifolds) = 2
    /\ st.mContactConstraints[1].externalContactManifold = 1
    /\ st.mContactPoints[1].externalContact = 2
    /\ builtFor(st, 1, 1)
    /\ contactPointIndex - 1 = 3
    /\ Len(sweep) > 0

=============================================================================
